---- MODULE Spec2Model ----
(***************************************************************************)
(* A model of the analytics engine of src/analysis_core.py: the caller's   *)
(* measurement table (a pandas DataFrame object), the grid standards       *)
(* passed to each call, and one action per public analysis function.       *)
(*                                                                         *)
(* Numbers.  voltage_pu, power_factor and the thresholds compared with     *)
(* them are held in hundredths (0.95 pu is 95); currents and powers are    *)
(* held in their own unit.  A float computed by the code is a record       *)
(* [kind, num, den]: an exact fraction num/den in lowest terms, NaN, or an *)
(* infinity, with the IEEE rules the code relies on (x/0, NaN             *)
(* propagation, comparisons with NaN being false).  Sums, differences,     *)
(* products and quotients are exact; a square root is rounded down to a    *)
(* hundredth; angles (arccos, angle, degrees) have no fraction and are     *)
(* held by their cosine or left out, as noted below.                       *)
(***************************************************************************)
EXTENDS Integers, Sequences, FiniteSets, TLC

\* The longest measurement table the model draws.
MaxRows == 2

----------------------------------------------------------------------------
\* Floats

Abs(x) == IF x < 0 THEN -x ELSE x

RECURSIVE GCD(_, _)
GCD(a, b) == IF b = 0 THEN a ELSE GCD(b, a % b)

NaN == [kind |-> "nan", num |-> 0, den |-> 1]

PosInf == [kind |-> "inf", num |-> 1, den |-> 1]

NegInf == [kind |-> "inf", num |-> -1, den |-> 1]

\* The float n/d, d /= 0, in lowest terms with a positive denominator.
Rat(n, d) ==
    LET g == GCD(Abs(n), Abs(d))
        s == IF d < 0 THEN -1 ELSE 1
    IN [kind |-> "num", num |-> (s * n) \div g, den |-> (s * d) \div g]

FromInt(i) == [kind |-> "num", num |-> i, den |-> 1]

IsNum(x) == x.kind = "num"

IsNaN(x) == x.kind = "nan"

IsInf(x) == x.kind = "inf"

\* x + y, x - y, x * y for finite or NaN operands (the code adds, subtracts
\* and multiplies no infinity).
FAdd(x, y) ==
    IF IsNum(x) /\ IsNum(y)
    THEN Rat(x.num * y.den + y.num * x.den, x.den * y.den)
    ELSE NaN

FSub(x, y) ==
    IF IsNum(x) /\ IsNum(y)
    THEN Rat(x.num * y.den - y.num * x.den, x.den * y.den)
    ELSE NaN

FMul(x, y) ==
    IF IsNum(x) /\ IsNum(y)
    THEN Rat(x.num * y.num, x.den * y.den)
    ELSE NaN

\* x / y as numpy divides float64 values: x/0 is an infinity of x's sign,
\* 0/0 and anything with a NaN is NaN.
FDiv(x, y) ==
    IF IsNum(x) /\ IsNum(y)
    THEN IF y.num # 0 THEN Rat(x.num * y.den, x.den * y.num)
         ELSE IF x.num > 0 THEN PosInf
         ELSE IF x.num < 0 THEN NegInf
         ELSE NaN
    ELSE IF IsNaN(x) \/ IsNaN(y) THEN NaN
    ELSE IF IsInf(x) /\ IsInf(y) THEN NaN
    ELSE IF IsInf(x) THEN (IF y.num < 0 THEN FromInt(-x.num) ELSE x)
    ELSE FromInt(0)

\* x < y and x <= y; false when either is NaN.
FLt(x, y) ==
    /\ ~IsNaN(x)
    /\ ~IsNaN(y)
    /\ IF IsNum(x) /\ IsNum(y) THEN x.num * y.den < y.num * x.den
       ELSE IF IsInf(x) /\ IsInf(y) THEN x.num < y.num
       ELSE IF IsInf(x) THEN x.num < 0
       ELSE y.num > 0

FLe(x, y) ==
    /\ ~IsNaN(x)
    /\ ~IsNaN(y)
    /\ ~FLt(y, x)

\* abs() of a float.
FAbs(x) == IF IsNum(x) THEN Rat(Abs(x.num), x.den) ELSE IF IsInf(x) THEN PosInf ELSE NaN

\* The largest r with r * r <= n, by bisection on lo..hi (lo * lo <= n < hi * hi).
RECURSIVE ISqrtIn(_, _, _)
ISqrtIn(n, lo, hi) ==
    IF hi - lo <= 1 THEN lo
    ELSE LET mid == (lo + hi) \div 2
         IN IF mid * mid <= n THEN ISqrtIn(n, mid, hi) ELSE ISqrtIn(n, lo, mid)

ISqrt(n) == ISqrtIn(n, 0, IF n + 1 < 46341 THEN n + 1 ELSE 46341)

\* The square root of a float, rounded down to a hundredth: exact whenever the
\* root is a whole number of hundredths. NaN for NaN and for a negative
\* number, as np.sqrt. (The quotient num * 10000 / den is taken in two parts
\* to stay within TLC's integers.)
FSqrt(x) ==
    IF IsNum(x) /\ x.num >= 0
    THEN Rat(ISqrt((x.num \div x.den) * 10000 + ((x.num % x.den) * 10000) \div x.den), 100)
    ELSE NaN

----------------------------------------------------------------------------
\* GridStandards

DefaultStandards ==
    [voltage_min |-> 95,
     voltage_max |-> 105,
     voltage_fault_min |-> 90,
     voltage_fault_max |-> 110,
     current_max |-> 120,
     power_factor_min |-> 90,
     power_factor_fault |-> 80,
     power_factor_target |-> 95]

\* A second set of thresholds, each lying on a value the samples take: the
\* normal band is as wide as the fault band, and the power-factor thresholds
\* are exchanged (nothing validates their relation).
WideStandards ==
    [voltage_min |-> 90,
     voltage_max |-> 110,
     voltage_fault_min |-> 100,
     voltage_fault_max |-> 100,
     current_max |-> 120,
     power_factor_min |-> 80,
     power_factor_fault |-> 90,
     power_factor_target |-> 80]

CurrentLimits == {120, 130}

\* Targets below 0, at 0, inside (0, 1), at 1 and above 1, in hundredths.
PowerFactorTargets == {-50, 0, 80, 95, 100, 150}

\* The standards a call may pass: each function is given the ones that differ
\* in a field it reads.
ThresholdStandards ==
    {[DefaultStandards EXCEPT !.current_max = c] : c \in CurrentLimits} \cup {WideStandards}

QualityStandards == {DefaultStandards, WideStandards}

TargetStandards ==
    {[DefaultStandards EXCEPT !.power_factor_target = t] : t \in PowerFactorTargets}

----------------------------------------------------------------------------
\* Measurement tables

\* station_id values in ascending (string) order.
StationOrder == <<"SUB_001", "SUB_002">>

StationIds == {StationOrder[i] : i \in 1..Len(StationOrder)}

\* The samples a row may hold, as <<voltage_pu, current_pu, power_factor,
\* real_power_mw, reactive_power_mvar>>: voltages on and beyond the fault
\* thresholds, currents on the two limits, power factors on and below the two
\* minima, and real and reactive power of either sign and zero.
Readings ==
    {[voltage_pu |-> m[1], current_pu |-> m[2], power_factor |-> m[3],
      real_power_mw |-> m[4], reactive_power_mvar |-> m[5]] :
        m \in {<<100, 120, 90, 4, 3>>,
               <<90, 120, 90, 4, 4>>,
               <<110, 120, 90, 4, -3>>,
               <<100, 130, 90, 0, 3>>,
               <<100, 120, 80, 0, 0>>,
               <<80, 130, 70, -4, 0>>}}

MeasurementRow(t, s, m) ==
    [timestamp |-> t,
     station_id |-> s,
     voltage_pu |-> m.voltage_pu,
     current_pu |-> m.current_pu,
     real_power_mw |-> m.real_power_mw,
     reactive_power_mvar |-> m.reactive_power_mvar,
     power_factor |-> m.power_factor]

\* The tables of n hourly samples: row i was taken at hour i - 1 (hours since
\* 2024-01-01 00:00, a Monday) at any station, with any of the readings.
TablesOf(n) ==
    {[i \in 1..n |-> MeasurementRow(i - 1, choice[i][1], choice[i][2])] :
        choice \in [1..n -> StationIds \X Readings]}

SortedByTimestamp(rows) ==
    \A i \in 1..(Len(rows) - 1) : rows[i].timestamp <= rows[i + 1].timestamp

BaseColumns ==
    {"timestamp", "station_id", "voltage_pu", "current_pu", "real_power_mw",
     "reactive_power_mvar", "power_factor"}

\* A DataFrame object: id tells one object from another (a copy is another
\* object, an in-place operation keeps the object), index names what the index
\* holds, columns the columns it has.
Frame(id, rows) ==
    [id |-> id, rows |-> rows, index |-> "RangeIndex", columns |-> BaseColumns]

----------------------------------------------------------------------------
\* pandas helpers

\* A variant of GroupKeys: groupby(..., sort=False), the keys in order of
\* first appearance.
GroupKeysByAppearance(rows) ==
    LET first == SelectSeq([i \in 1..Len(rows) |-> i],
                           LAMBDA i : \A j \in 1..(i - 1) :
                                          rows[j].station_id # rows[i].station_id)
    IN [k \in 1..Len(first) |-> rows[first[k]].station_id]

\* df.groupby("station_id"): the keys, in ascending order.
GroupKeys(rows) ==
    SelectSeq(StationOrder, LAMBDA s : \E i \in 1..Len(rows) : rows[i].station_id = s)

\* df.groupby("station_id"): the rows of one key, in the table's order.
GroupRows(rows, station) ==
    SelectSeq(rows, LAMBDA r : r.station_id = station)

RECURSIVE SeqSum(_)
SeqSum(xs) == IF xs = <<>> THEN 0 ELSE Head(xs) + SeqSum(Tail(xs))

RECURSIVE SeqMinFrom(_, _)
SeqMinFrom(m, xs) ==
    IF xs = <<>> THEN m
    ELSE SeqMinFrom(IF Head(xs) < m THEN Head(xs) ELSE m, Tail(xs))

RECURSIVE SeqMaxFrom(_, _)
SeqMaxFrom(m, xs) ==
    IF xs = <<>> THEN m
    ELSE SeqMaxFrom(IF Head(xs) > m THEN Head(xs) ELSE m, Tail(xs))

\* Series.min() and Series.max() of a non-empty series of numbers.
SeriesMin(xs) == SeqMinFrom(Head(xs), Tail(xs))

SeriesMax(xs) == SeqMaxFrom(Head(xs), Tail(xs))

\* Series.mean() of a non-empty series of numbers.
SeriesMean(xs) == Rat(SeqSum(xs), Len(xs))

\* A variant of BoolMean: Series.sum(), the number of True.
BoolSum(bs) == FromInt(Len(SelectSeq(bs, LAMBDA b : b)))

\* Series.mean() of a non-empty boolean series: the share of True.
BoolMean(bs) == Rat(Len(SelectSeq(bs, LAMBDA b : b)), Len(bs))

\* One column of a group, as a series.
Column(group, name) == [i \in 1..Len(group) |-> group[i][name]]

\* A variant of Between: inclusive="neither".
BetweenExclusive(v, lo, hi) == lo < v /\ v < hi

\* Series.between(lo, hi), inclusive="both".
Between(v, lo, hi) == lo <= v /\ v <= hi

----------------------------------------------------------------------------
\* compare_to_standards

ComplianceRow(station, group, standards) ==
    LET voltage_in_band ==
            [i \in 1..Len(group) |->
                Between(group[i].voltage_pu, standards.voltage_min, standards.voltage_max)]
        pf_in_band ==
            [i \in 1..Len(group) |-> group[i].power_factor >= standards.power_factor_min]
        current_in_band ==
            [i \in 1..Len(group) |-> group[i].current_pu <= standards.current_max]
    IN [station_id |-> station,
        voltage_within_pct |-> FMul(BoolMean(voltage_in_band), FromInt(100)),
        power_factor_within_pct |-> FMul(BoolMean(pf_in_band), FromInt(100)),
        current_within_pct |-> FMul(BoolMean(current_in_band), FromInt(100)),
        voltage_min_observed |-> SeriesMin(Column(group, "voltage_pu")),
        voltage_max_observed |-> SeriesMax(Column(group, "voltage_pu")),
        current_max_observed |-> SeriesMax(Column(group, "current_pu")),
        power_factor_min_observed |-> SeriesMin(Column(group, "power_factor"))]

\* The function reads no index and no timestamp, and leaves its argument alone.
CompareToStandards(df, standards) ==
    LET keys == GroupKeys(df.rows)
    IN [error |-> "none",
        table |-> [k \in 1..Len(keys) |->
                      ComplianceRow(keys[k], GroupRows(df.rows, keys[k]), standards)],
        caller |-> df]

----------------------------------------------------------------------------
\* perform_fault_analysis

\* A variant of VoltageSag: at or below the threshold.
VoltageSagInclusive(group, standards) ==
    SelectSeq(group, LAMBDA r : r.voltage_pu <= standards.voltage_fault_min)

VoltageSag(group, standards) ==
    SelectSeq(group, LAMBDA r : r.voltage_pu < standards.voltage_fault_min)

\* A variant of VoltageSwell: a voltage on the threshold counts too.
VoltageSwellInclusive(group, standards) ==
    SelectSeq(group, LAMBDA r : r.voltage_pu >= standards.voltage_fault_max)

VoltageSwell(group, standards) ==
    SelectSeq(group, LAMBDA r : r.voltage_pu > standards.voltage_fault_max)

\* A variant of OverCurrent: the comparison turned round.
OverCurrentBelow(group, standards) ==
    SelectSeq(group, LAMBDA r : r.current_pu < standards.current_max)

OverCurrent(group, standards) ==
    SelectSeq(group, LAMBDA r : r.current_pu > standards.current_max)

VeryLowPf(group, standards) ==
    SelectSeq(group, LAMBDA r : r.power_factor < standards.power_factor_fault)

\* A first_fault / last_fault cell: a timestamp, or None.
NoTimestamp == [present |-> FALSE, timestamp |-> 0]

SomeTimestamp(t) == [present |-> TRUE, timestamp |-> t]

\* pd.concat of the non-empty frames' timestamp columns, in the order the code
\* lists the frames.
RECURSIVE FaultTimestamps(_)
FaultTimestamps(frames) ==
    IF frames = <<>> THEN <<>>
    ELSE Column(Head(frames), "timestamp") \o FaultTimestamps(Tail(frames))

\* A variant of FirstFault: the first timestamp of the concatenation
\* (.iloc[0]) in place of its minimum.
FirstFaultInFrameOrder(fault_timestamps) ==
    IF fault_timestamps = <<>> THEN NoTimestamp
    ELSE SomeTimestamp(Head(fault_timestamps))

FirstFault(fault_timestamps) ==
    IF fault_timestamps = <<>> THEN NoTimestamp
    ELSE SomeTimestamp(SeriesMin(fault_timestamps))

LastFault(fault_timestamps) ==
    IF fault_timestamps = <<>> THEN NoTimestamp
    ELSE SomeTimestamp(SeriesMax(fault_timestamps))

FaultRecord(station, group, standards) ==
    LET voltage_sag == VoltageSag(group, standards)
        voltage_swell == VoltageSwell(group, standards)
        over_current == OverCurrent(group, standards)
        very_low_pf == VeryLowPf(group, standards)
        fault_frames ==
            SelectSeq(<<voltage_sag, voltage_swell, over_current, very_low_pf>>,
                      LAMBDA frame : frame # <<>>)
        fault_timestamps == FaultTimestamps(fault_frames)
    IN [station_id |-> station,
        voltage_sag_events |-> Len(voltage_sag),
        voltage_swell_events |-> Len(voltage_swell),
        over_current_events |-> Len(over_current),
        very_low_pf_events |-> Len(very_low_pf),
        first_fault |-> FirstFault(fault_timestamps),
        last_fault |-> LastFault(fault_timestamps)]

\* A variant of PerformFaultAnalysis: a record only for the stations with a
\* fault.
PerformFaultAnalysisFaultyOnly(df, standards) ==
    LET keys == GroupKeys(df.rows)
        records == [k \in 1..Len(keys) |->
                       FaultRecord(keys[k], GroupRows(df.rows, keys[k]), standards)]
    IN [error |-> "none",
        table |-> SelectSeq(records, LAMBDA rec : rec.first_fault.present),
        caller |-> df]

\* frame[["timestamp"]] is evaluated for the non-empty frames only: a table
\* whose timestamp is not a column raises KeyError at the first station with a
\* fault, and not at all when no station has one.
PerformFaultAnalysis(df, standards) ==
    LET keys == GroupKeys(df.rows)
        records == [k \in 1..Len(keys) |->
                       FaultRecord(keys[k], GroupRows(df.rows, keys[k]), standards)]
        faulty == \E k \in 1..Len(keys) : records[k].first_fault.present
    IN IF faulty /\ "timestamp" \notin df.columns
       THEN [error |-> "KeyError", table |-> <<>>, caller |-> df]
       ELSE [error |-> "none", table |-> records, caller |-> df]

----------------------------------------------------------------------------
\* calculate_basic_statistics

\* xs in ascending order (insertion into a sorted sequence).
RECURSIVE InsertSorted(_, _)
InsertSorted(x, xs) ==
    IF xs = <<>> THEN <<x>>
    ELSE IF x <= Head(xs) THEN <<x>> \o xs
    ELSE <<Head(xs)>> \o InsertSorted(x, Tail(xs))

RECURSIVE SortAscending(_)
SortAscending(xs) == IF xs = <<>> THEN <<>> ELSE InsertSorted(Head(xs), SortAscending(Tail(xs)))

\* Series.median() of a non-empty series.
SeriesMedian(xs) ==
    LET sorted == SortAscending(xs)
        n == Len(xs)
    IN IF n % 2 = 1 THEN FromInt(sorted[(n + 1) \div 2])
       ELSE Rat(sorted[n \div 2] + sorted[n \div 2 + 1], 2)

\* The sum of squared deviations from the mean, times n (an integer):
\* n * sum(x^2) - sum(x)^2.
SquaredDeviations(xs) ==
    Len(xs) * SeqSum([i \in 1..Len(xs) |-> xs[i] * xs[i]]) - SeqSum(xs) * SeqSum(xs)

\* A variant of SeriesStd: the population standard deviation (ddof=0).
SeriesStdPopulation(xs) ==
    FSqrt(Rat(SquaredDeviations(xs), Len(xs) * Len(xs)))

\* Series.std(): the sample standard deviation (ddof=1), NaN for one sample.
SeriesStd(xs) ==
    IF Len(xs) < 2 THEN NaN
    ELSE FSqrt(Rat(SquaredDeviations(xs), Len(xs) * (Len(xs) - 1)))

Metrics ==
    <<"voltage_pu", "current_pu", "real_power_mw", "reactive_power_mvar", "power_factor">>

\* One station's row: for each metric its mean, median and std
\* (the columns voltage_pu_mean, voltage_pu_median, voltage_pu_std, ...).
StatisticsRow(station, group) ==
    [station_id |-> station,
     mean |-> [m \in 1..Len(Metrics) |-> SeriesMean(Column(group, Metrics[m]))],
     median |-> [m \in 1..Len(Metrics) |-> SeriesMedian(Column(group, Metrics[m]))],
     std |-> [m \in 1..Len(Metrics) |-> SeriesStd(Column(group, Metrics[m]))]]

CalculateBasicStatistics(df) ==
    LET keys == GroupKeys(df.rows)
    IN [error |-> "none",
        table |-> [k \in 1..Len(keys) |->
                      StatisticsRow(keys[k], GroupRows(df.rows, keys[k]))],
        caller |-> df]

----------------------------------------------------------------------------
\* identify_load_patterns

\* A variant of SetIndex: set_index(..., inplace=True), on the object itself.
SetIndexInPlace(df) ==
    [df EXCEPT !.index = "timestamp", !.columns = @ \ {"timestamp"}]

\* df.set_index("timestamp"): a new object whose index is the timestamp column.
SetIndex(df) ==
    [df EXCEPT !.id = "indexed", !.index = "timestamp", !.columns = @ \ {"timestamp"}]

\* The table the caller holds after a call that ended with `obj` in hand: the
\* caller's own object when `obj` is that object, else the table as it was.
CallerAfter(df, obj) == IF obj.id = df.id THEN obj ELSE df

\* A variant of BucketMean: 0 for an empty bucket.
BucketMeanOrZero(xs) == IF xs = <<>> THEN FromInt(0) ELSE SeriesMean(xs)

\* mean() of a bucket of samples: NaN for an empty bucket.
BucketMean(xs) == IF xs = <<>> THEN NaN ELSE SeriesMean(xs)

DayOf(t) == t \div 24

HourOf(t) == t % 24

\* A variant of WeekEnd: a week that ends before its Sunday, whose samples go
\* to the week after.
WeekEndBeforeSunday(d) == d + (7 - ((d + 1) % 7))

\* The day of the Sunday that ends the week of day d (day 0 is a Monday).
WeekEnd(d) == d + (6 - (d % 7))

\* The day that labels the bucket of day d: the day itself under "D"; under
\* "W" (W-SUN, bins closed and labelled on the right, the bin of a Sunday
\* reaching to the end of that day) the Sunday that ends d's week.
BucketLabel(rule, d) == IF rule = "W" THEN WeekEnd(d) ELSE d

BucketStep(rule) == IF rule = "W" THEN 7 ELSE 1

\* grouped[...].resample(rule).mean() for one station: one row per bucket from
\* the bucket of the group's first sample to that of its last, each labelled
\* with its bucket's day at 00:00, an empty bucket holding NaN.
ResampleRows(station, group, rule) ==
    LET times == Column(group, "timestamp")
        first == BucketLabel(rule, DayOf(SeriesMin(times)))
        last == BucketLabel(rule, DayOf(SeriesMax(times)))
    IN [b \in 1..((last - first) \div BucketStep(rule) + 1) |->
           LET day == first + (b - 1) * BucketStep(rule)
               bucket == SelectSeq(group,
                                   LAMBDA r : BucketLabel(rule, DayOf(r.timestamp)) = day)
           IN [station_id |-> station,
               timestamp |-> day * 24,
               real_power_mw |-> BucketMean(Column(bucket, "real_power_mw")),
               reactive_power_mvar |->
                   BucketMean(Column(bucket, "reactive_power_mvar"))]]

\* daily: resample("D").
DailyRows(station, group) == ResampleRows(station, group, "D")

\* weekly: resample("W").
WeeklyRows(station, group) == ResampleRows(station, group, "W")

\* A variant of HourlyRows: grouped by timestamp, the date kept.
HourlyRowsPerTimestamp(station, group) ==
    LET times == Column(group, "timestamp")
        first == SelectSeq([i \in 1..Len(group) |-> i],
                           LAMBDA i : \A j \in 1..(i - 1) : times[j] # times[i])
    IN [k \in 1..Len(first) |->
           LET bucket == SelectSeq(group, LAMBDA r : r.timestamp = times[first[k]])
           IN [station_id |-> station,
               hour |-> HourOf(times[first[k]]),
               mean_real_power_mw |-> BucketMean(Column(bucket, "real_power_mw")),
               mean_reactive_power_mvar |->
                   BucketMean(Column(bucket, "reactive_power_mvar"))]]

\* groupby(["station_id", hour]).mean(): one row per hour of day the station
\* has a sample in, in ascending order of hour.
HourlyRows(station, group) ==
    LET hours == SelectSeq([h \in 1..24 |-> h - 1],
                           LAMBDA h : \E i \in 1..Len(group) : HourOf(group[i].timestamp) = h)
    IN [k \in 1..Len(hours) |->
           LET bucket == SelectSeq(group, LAMBDA r : HourOf(r.timestamp) = hours[k])
           IN [station_id |-> station,
               hour |-> hours[k],
               mean_real_power_mw |-> BucketMean(Column(bucket, "real_power_mw")),
               mean_reactive_power_mvar |->
                   BucketMean(Column(bucket, "reactive_power_mvar"))]]

\* pd.concat of a sequence of tables.
RECURSIVE Concat(_)
Concat(tables) ==
    IF tables = <<>> THEN <<>> ELSE Head(tables) \o Concat(Tail(tables))

IdentifyLoadPatterns(df) ==
    IF "timestamp" \notin df.columns
    THEN [error |-> "KeyError", table |-> <<>>, caller |-> df]
    ELSE LET indexed == SetIndex(df)
             keys == GroupKeys(indexed.rows)
             group(k) == GroupRows(indexed.rows, keys[k])
         IN [error |-> "none",
             table |->
                 [daily |-> Concat([k \in 1..Len(keys) |-> DailyRows(keys[k], group(k))]),
                  weekly |-> Concat([k \in 1..Len(keys) |-> WeeklyRows(keys[k], group(k))]),
                  hourly_profile |->
                      Concat([k \in 1..Len(keys) |-> HourlyRows(keys[k], group(k))])],
             caller |-> CallerAfter(df, indexed)]

----------------------------------------------------------------------------
\* calculate_power_quality_indices

\* A variant of DfCopy: no copy, the caller's own object.
DfAlias(df) == df

\* df.copy(): another object with the same rows and columns.
DfCopy(df) == [df EXCEPT !.id = "work"]

\* work[name] = ... for each of the names.
AssignColumns(frame, names) == [frame EXCEPT !.columns = @ \cup names]

\* A variant of ReplaceZero: no replacement.
KeepZero(x) == x

\* Series.replace(0, np.nan) on one value.
ReplaceZero(x) == IF IsNum(x) /\ x.num = 0 THEN NaN ELSE x

\* np.abs(real + 1j * reactive) of one sample.
ApparentPower(r) ==
    FSqrt(FromInt(r.real_power_mw * r.real_power_mw
                  + r.reactive_power_mvar * r.reactive_power_mvar))

RECURSIVE FSum(_)
FSum(xs) == IF xs = <<>> THEN FromInt(0) ELSE FAdd(Head(xs), FSum(Tail(xs)))

\* Series.mean() of a non-empty series of floats.
FMean(xs) == FDiv(FSum(xs), FromInt(Len(xs)))

\* low_pf_pct / poor_pf_pct: the percentage of a series below a threshold.
BelowPct(series, threshold) ==
    FMul(BoolMean([i \in 1..Len(series) |-> series[i] < threshold]), FromInt(100))

\* One station's row. avg_phase_angle_deg and phase_angle_std_deg, an angle's
\* mean and deviation, are not held.
QualityRow(station, group, standards) ==
    LET power_factor == Column(group, "power_factor")
        real_power == Column(group, "real_power_mw")
        peak_demand_mw == FromInt(SeriesMax(real_power))
        avg_demand_mw == SeriesMean(real_power)
        avg_reactive_power_mvar == SeriesMean(Column(group, "reactive_power_mvar"))
    IN [station_id |-> station,
        avg_power_factor |-> SeriesMean(power_factor),
        min_power_factor |-> SeriesMin(power_factor),
        low_power_factor_pct |-> BelowPct(power_factor, standards.power_factor_min),
        very_low_power_factor_pct |-> BelowPct(power_factor, standards.power_factor_fault),
        avg_voltage_deviation |->
            SeriesMean([i \in 1..Len(group) |-> Abs(group[i].voltage_pu - 100)]),
        voltage_std |-> SeriesStd(Column(group, "voltage_pu")),
        avg_apparent_power_mva |->
            FMean([i \in 1..Len(group) |-> ApparentPower(group[i])]),
        peak_demand_mw |-> peak_demand_mw,
        avg_demand_mw |-> avg_demand_mw,
        avg_reactive_power_mvar |-> avg_reactive_power_mvar,
        load_factor |-> FDiv(avg_demand_mw, ReplaceZero(peak_demand_mw)),
        kvar_to_kw_ratio |-> FDiv(avg_reactive_power_mvar, ReplaceZero(avg_demand_mw))]

CalculatePowerQualityIndices(df, standards) ==
    LET work == AssignColumns(DfCopy(df),
                              {"apparent_power_mva", "phase_angle_deg", "voltage_deviation"})
        keys == GroupKeys(work.rows)
    IN [error |-> "none",
        table |-> [k \in 1..Len(keys) |->
                      QualityRow(keys[k], GroupRows(work.rows, keys[k]), standards)],
        caller |-> CallerAfter(df, work)]

----------------------------------------------------------------------------
\* calculate_circuit_metrics

\* np.clip(x, lo, hi).
Clip(x, lo, hi) == IF x < lo THEN lo ELSE IF x > hi THEN hi ELSE x

\* A variant of TargetPf: the configured target as it is.
TargetPfUnclamped(standards) == standards.power_factor_target

\* target_pf: the configured target clamped to [0, 1].
TargetPf(standards) == Clip(standards.power_factor_target, 0, 100)

\* target_angle_rad, held by its cosine (in hundredths): arccos(target_pf) for
\* a target in (0, 1], and the angle 0, whose cosine is 1, otherwise.
TargetAngleCos(target_pf) ==
    IF 0 < target_pf /\ target_pf <= 100 THEN Clip(target_pf, -100, 100) ELSE 100

\* np.tan of the angle whose cosine is cos / 100, 0 < cos <= 100.
TanOfAngle(cos) ==
    LET c == Rat(cos, 100)
    IN FDiv(FSqrt(FSub(FromInt(1), FMul(c, c))), c)

\* A variant of TargetReactive: the angle's cosine in place of its tangent.
TargetReactiveByCos(avg_real, target_angle_cos) ==
    IF avg_real.num # 0 THEN FMul(avg_real, Rat(target_angle_cos, 100)) ELSE FromInt(0)

\* target_reactive: avg_real * tan(target angle), and 0.0 when avg_real is 0.
TargetReactive(avg_real, target_angle_cos) ==
    IF avg_real.num # 0 THEN FMul(avg_real, TanOfAngle(target_angle_cos)) ELSE FromInt(0)

\* Python's max(0.0, x): x when x > 0.0, else 0.0 (also for a NaN).
MaxWithZero(x) == IF FLt(FromInt(0), x) THEN x ELSE FromInt(0)

\* A variant of ReactiveCorrection: the difference without its floor at 0.
ReactiveCorrectionNoFloor(avg_reactive, target_reactive) ==
    FSub(avg_reactive, target_reactive)

\* A variant of ReactiveCorrection: the distance from the target, on either
\* side of it.
ReactiveCorrectionAbs(avg_reactive, target_reactive) ==
    FAbs(FSub(avg_reactive, target_reactive))

\* reactive_correction.
ReactiveCorrection(avg_reactive, target_reactive) ==
    MaxWithZero(FSub(avg_reactive, target_reactive))

\* A variant of PowerFactorOf: 0.0 in place of NaN.
PowerFactorOrZero(avg_real, magnitude) ==
    IF FLt(FromInt(0), magnitude) THEN FDiv(avg_real, magnitude) ELSE FromInt(0)

\* avg_real / magnitude when the magnitude is positive, else NaN.
PowerFactorOf(avg_real, magnitude) ==
    IF FLt(FromInt(0), magnitude) THEN FDiv(avg_real, magnitude) ELSE NaN

\* np.hypot(x, y) and np.abs(x + 1j * y): exactly |x| when y is 0 and |y|
\* when x is 0, as in floating point; else the rounded square root.
Hypot(x, y) ==
    IF IsNum(x) /\ IsNum(y) /\ y.num = 0 THEN FAbs(x)
    ELSE IF IsNum(x) /\ IsNum(y) /\ x.num = 0 THEN FAbs(y)
    ELSE FSqrt(FAdd(FMul(x, x), FMul(y, y)))

\* A variant of Rms: the mean of the absolute values.
RmsMeanAbs(samples) == SeriesMean([i \in 1..Len(samples) |-> Abs(samples[i])])

\* sqrt(mean(square(samples))).
Rms(samples) == FSqrt(SeriesMean([i \in 1..Len(samples) |-> samples[i] * samples[i]]))

\* A variant of CircuitRow: combine, then average. The apparent power is the
\* mean of the per-sample magnitudes, before and after each sample's correction.
CircuitRowPerSample(station, group, standards) ==
    LET target_pf == TargetPf(standards)
        target_angle_cos == TargetAngleCos(target_pf)
        avg_real == SeriesMean(Column(group, "real_power_mw"))
        avg_reactive == SeriesMean(Column(group, "reactive_power_mvar"))
        apparent_mag == FMean([i \in 1..Len(group) |-> ApparentPower(group[i])])
        target_reactive == TargetReactive(avg_real, target_angle_cos)
        reactive_correction == ReactiveCorrection(avg_reactive, target_reactive)
        expected_apparent ==
            FMean([i \in 1..Len(group) |->
                      Hypot(FromInt(group[i].real_power_mw),
                            FSub(FromInt(group[i].reactive_power_mvar), reactive_correction))])
    IN [station_id |-> station,
        voltage_rms_pu |-> Rms(Column(group, "voltage_pu")),
        current_rms_pu |-> Rms(Column(group, "current_pu")),
        avg_real_power_mw |-> avg_real,
        avg_reactive_power_mvar |-> avg_reactive,
        existing_power_factor |-> PowerFactorOf(avg_real, apparent_mag),
        target_power_factor |-> target_pf,
        target_phase_angle_cos |-> target_angle_cos,
        required_reactive_correction_mvar |-> reactive_correction,
        required_capacitor_bank_kvar |-> FMul(reactive_correction, FromInt(1000)),
        expected_power_factor |-> PowerFactorOf(avg_real, expected_apparent)]

\* One station's row. existing_phase_angle_deg and target_phase_angle_deg are
\* angles: the first is not held, the second is held by its cosine.
CircuitRow(station, group, standards) ==
    LET target_pf == TargetPf(standards)
        target_angle_cos == TargetAngleCos(target_pf)
        avg_real == SeriesMean(Column(group, "real_power_mw"))
        avg_reactive == SeriesMean(Column(group, "reactive_power_mvar"))
        apparent_mag == Hypot(avg_real, avg_reactive)
        target_reactive == TargetReactive(avg_real, target_angle_cos)
        reactive_correction == ReactiveCorrection(avg_reactive, target_reactive)
        expected_reactive == FSub(avg_reactive, reactive_correction)
        expected_apparent == Hypot(avg_real, expected_reactive)
    IN [station_id |-> station,
        voltage_rms_pu |-> Rms(Column(group, "voltage_pu")),
        current_rms_pu |-> Rms(Column(group, "current_pu")),
        avg_real_power_mw |-> avg_real,
        avg_reactive_power_mvar |-> avg_reactive,
        existing_power_factor |-> PowerFactorOf(avg_real, apparent_mag),
        target_power_factor |-> target_pf,
        target_phase_angle_cos |-> target_angle_cos,
        required_reactive_correction_mvar |-> reactive_correction,
        required_capacitor_bank_kvar |-> FMul(reactive_correction, FromInt(1000)),
        expected_power_factor |-> PowerFactorOf(avg_real, expected_apparent)]

\* `if group.empty: continue` skips a key without rows; groupby yields none.
CalculateCircuitMetrics(df, standards) ==
    LET keys == SelectSeq(GroupKeys(df.rows), LAMBDA s : GroupRows(df.rows, s) # <<>>)
    IN [error |-> "none",
        table |-> [k \in 1..Len(keys) |->
                      CircuitRow(keys[k], GroupRows(df.rows, keys[k]), standards)],
        caller |-> df]

----------------------------------------------------------------------------
\* load_power_data

\* The texts a source's timestamp cell may hold are told apart by their rank
\* in text order, 0..MaxKey (ISO timestamps rank in time order: the text of
\* rank t parses, when it does, as hour t).
MaxKey == 2

\* A timestamp cell of the source file: its text, by rank, and whether
\* pandas can parse it as a date.
TimestampCells == [parseable : BOOLEAN, key : 0..MaxKey]

\* The columns a source file may have: all seven, or all but one.
SourceColumns ==
    {BaseColumns, BaseColumns \ {"timestamp"}, BaseColumns \ {"station_id"},
     BaseColumns \ {"voltage_pu"}}

\* The measurements of a source's records: the nominal sample and the one
\* that is out of range in every field.
SourceReadings ==
    {m \in Readings : m.real_power_mw # 0 /\ m.reactive_power_mvar \in {0, 3}}

\* The source files of n records: any columns, and in each record any cell
\* under each column the file has.
SourcesOf(n) ==
    {[columns |-> columns,
      records |-> [i \in 1..n |->
                     [c \in columns |->
                         MeasurementRow(choice[i][1], choice[i][2], choice[i][3])[c]]]] :
        columns \in SourceColumns,
        choice \in [1..n -> TimestampCells \X StationIds \X SourceReadings]}

\* pd.read_csv(csv_path, parse_dates=["timestamp"]): a ValueError when the
\* file has no timestamp column; no other column is asked for. The timestamp
\* column becomes datetime64 when every cell parses, and is otherwise left as
\* it is, as text (dtype object), without an error.
ReadCsv(csv) ==
    IF "timestamp" \notin csv.columns
    THEN [error |-> "ValueError", rows |-> <<>>, timestamp_dtype |-> "none"]
    ELSE IF \A i \in 1..Len(csv.records) : csv.records[i].timestamp.parseable
    THEN [error |-> "none",
          rows |-> [i \in 1..Len(csv.records) |->
                      [csv.records[i] EXCEPT !.timestamp = @.key]],
          timestamp_dtype |-> "datetime64"]
    ELSE [error |-> "none", rows |-> csv.records, timestamp_dtype |-> "object"]

\* What sort_values compares of a row: the time, or the text of the cell.
SortKey(row, timestamp_dtype) ==
    IF timestamp_dtype = "datetime64" THEN row.timestamp ELSE row.timestamp.key

Orderings(n) == {p \in [1..n -> 1..n] : \A i, j \in 1..n : p[i] = p[j] => i = j}

\* A variant of SortValues: the rows as they are.
SortValuesSkipped(rows, timestamp_dtype) == {rows}

\* df.sort_values("timestamp", inplace=True): the default sort is not stable,
\* so rows with equal timestamps come in any order.
SortValues(rows, timestamp_dtype) ==
    {sorted \in {[i \in 1..Len(rows) |-> rows[p[i]]] : p \in Orderings(Len(rows))} :
        \A i \in 1..(Len(sorted) - 1) :
            SortKey(sorted[i], timestamp_dtype) <= SortKey(sorted[i + 1], timestamp_dtype)}

----------------------------------------------------------------------------
\* dashboard.data_loader: the cached loaders

\* The functions decorated with @lru_cache(maxsize=1).
Loaders ==
    {"_load_dataset", "_load_patterns", "load_basic_statistics",
     "load_standard_comparison", "load_power_quality_indices",
     "load_fault_summary", "load_daily_pattern", "load_weekly_pattern",
     "load_hourly_profile"}

\* The loaders that compute their table from _load_dataset().
DatasetLoaders ==
    {"_load_patterns", "load_basic_statistics", "load_standard_comparison",
     "load_power_quality_indices", "load_fault_summary"}

\* The loaders that take their table out of _load_patterns().
PatternLoaders == {"load_daily_pattern", "load_weekly_pattern", "load_hourly_profile"}

\* The cached function a loader calls for its input; _load_dataset reads
\* CONFIG.data_file.
InputOf(loader) ==
    IF loader \in PatternLoaders THEN "_load_patterns"
    ELSE IF loader \in DatasetLoaders THEN "_load_dataset"
    ELSE "data_file"

\* The sample every record of a dashboard data file holds.
DashboardReading ==
    [voltage_pu |-> 100, current_pu |-> 120, power_factor |-> 90,
     real_power_mw |-> 4, reactive_power_mvar |-> 3]

\* The contents CONFIG.data_file may have, as the rows load_power_data makes
\* of them: a header without records; one record; records of two days of
\* January 2024; records of three days in two months (hour 744 is
\* 2024-02-01 00:00); records of days in three months (hour 1440 is
\* 2024-03-01 00:00); one record of February; two records of one day.
DataFiles ==
    <<<<>>,
      <<MeasurementRow(0, "SUB_001", DashboardReading)>>,
      <<MeasurementRow(0, "SUB_001", DashboardReading),
        MeasurementRow(24, "SUB_002", DashboardReading)>>,
      <<MeasurementRow(0, "SUB_001", DashboardReading),
        MeasurementRow(24, "SUB_002", DashboardReading),
        MeasurementRow(744, "SUB_001", DashboardReading)>>,
      <<MeasurementRow(23, "SUB_001", DashboardReading),
        MeasurementRow(744, "SUB_001", DashboardReading),
        MeasurementRow(1440, "SUB_001", DashboardReading)>>,
      <<MeasurementRow(744, "SUB_002", DashboardReading)>>,
      <<MeasurementRow(0, "SUB_001", DashboardReading),
        MeasurementRow(1, "SUB_001", DashboardReading)>>>>

\* The data file cannot be read (load_power_data raises).
Unreadable == 0

\* A table a loader holds or returns, by its provenance: the read of the data
\* file it derives from (reads are numbered from 1) and the contents read.
\* An lru_cache without an entry holds NotCached.
NotCached == [read |-> 0, file |-> Unreadable]

NothingReturned == [loader |-> "none", error |-> "none", read |-> 0, file |-> Unreadable]

\* The module dashboard.data_loader with the data file holding DataFiles[file]:
\* the reads of the file made so far, the entry of each lru_cache, the number
\* of reads made when clear_cache() last ran, and what the last loader call
\* since then returned.
ColdCache(file) ==
    [file |-> file,
     reads |-> 0,
     entries |-> [l \in Loaders |-> NotCached],
     cleared_at |-> 0,
     returned |-> NothingReturned]

\* The module not imported: the analysis functions are used without it.
NoCache == ColdCache(Unreadable)

\* A call of a loader through its lru_cache wrapper. An entry is returned as
\* it is; without one the function runs: _load_dataset reads the data file,
\* every other loader calls the cached function it computes from, and the
\* result is stored. A call that raises stores nothing.
RECURSIVE CachedCall(_, _)
CachedCall(c, loader) ==
    IF c.entries[loader] # NotCached
    THEN [cache |-> c, error |-> "none", value |-> c.entries[loader]]
    ELSE IF InputOf(loader) = "data_file"
    THEN IF c.file = Unreadable
         THEN [cache |-> c, error |-> "FileNotFoundError", value |-> NotCached]
         ELSE LET value == [read |-> c.reads + 1, file |-> c.file]
              IN [cache |-> [c EXCEPT !.reads = c.reads + 1,
                                      !.entries[loader] = value],
                  error |-> "none",
                  value |-> value]
    ELSE LET input == CachedCall(c, InputOf(loader))
         IN IF input.error # "none"
            THEN input
            ELSE [cache |-> [input.cache EXCEPT !.entries[loader] = input.value],
                  error |-> "none",
                  value |-> input.value]

\* A variant of ClearedCache: cache_clear() on _load_dataset alone.
ClearedDatasetOnly(c) ==
    [c EXCEPT !.entries["_load_dataset"] = NotCached,
              !.cleared_at = c.reads,
              !.returned = NothingReturned]

\* clear_cache(): cache_clear() on each of the nine loaders.
ClearedCache(c) ==
    [c EXCEPT !.entries = [l \in Loaders |-> NotCached],
              !.cleared_at = c.reads,
              !.returned = NothingReturned]

----------------------------------------------------------------------------
\* dashboard.app: period options, filtering and charts

VIEW_MODES == <<"overall", "monthly", "daily">>

\* PeriodOption(key=None, label="All Data"); the key None is written -1.
AllData == [key |-> -1, label |-> "All Data"]

\* The first day of each month of 2024, in days since 2024-01-01.
MonthStarts == <<0, 31, 60, 91, 121, 152, 182, 213, 244, 274, 305, 335>>

\* dt.to_period("M") of a timestamp of 2024: the month, counted from 1.
MonthOf(t) == Cardinality({m \in 1..Len(MonthStarts) : MonthStarts[m] <= DayOf(t)})

\* sorted(series.unique()): the distinct values in ascending order.
RECURSIVE SortedUnique(_)
SortedUnique(values) ==
    IF values = {} THEN <<>>
    ELSE LET least == CHOOSE v \in values : \A w \in values : v <= w
         IN <<least>> \o SortedUnique(values \ {least})

\* _build_period_options(df)
BuildPeriodOptions(rows) ==
    IF rows = <<>>
    THEN [overall |-> <<AllData>>, monthly |-> <<>>, daily |-> <<>>]
    ELSE LET months == SortedUnique({MonthOf(rows[i].timestamp) : i \in 1..Len(rows)})
             days == SortedUnique({DayOf(rows[i].timestamp) : i \in 1..Len(rows)})
         IN [overall |-> <<AllData>>,
             monthly |-> [i \in 1..Len(months) |-> [key |-> months[i], label |-> "%b %Y"]],
             daily |-> [i \in 1..Len(days) |-> [key |-> days[i], label |-> "%d %b %Y"]]]

\* _filter_dataframe(df, mode, option)
FilterDataframe(rows, mode, option) ==
    IF mode = "overall" \/ option.key = AllData.key THEN rows
    ELSE IF mode = "monthly"
    THEN SelectSeq(rows, LAMBDA r : MonthOf(r.timestamp) = option.key)
    ELSE SelectSeq(rows, LAMBDA r : DayOf(r.timestamp) = option.key)

\* build_chart_surfaces(daily, weekly, hourly, compliance, circuit_metrics):
\* the names of the charts, in order; each table adds its charts when it has
\* rows.
BuildChartSurfaces(daily, weekly, hourly, compliance, circuit_metrics) ==
    (IF daily # <<>>
     THEN <<"Daily Mean Real Power", "Daily Mean Reactive Power">> ELSE <<>>)
    \o (IF weekly # <<>>
        THEN <<"Weekly Mean Real Power", "Weekly Mean Reactive Power">> ELSE <<>>)
    \o (IF hourly # <<>>
        THEN <<"Diurnal Load Profile", "Diurnal Reactive Load">> ELSE <<>>)
    \o (IF compliance # <<>> THEN <<"Standards Compliance">> ELSE <<>>)
    \o (IF circuit_metrics # <<>>
        THEN <<"Power Factor Correction", "Capacitor Sizing">> ELSE <<>>)

\* A call of build_chart_surfaces with positional arguments: the function has
\* five parameters without defaults, and Python raises a TypeError on a call
\* that leaves one out.
CallBuildChartSurfaces(args) ==
    IF Len(args) # 5
    THEN [error |-> "TypeError", charts |-> <<>>]
    ELSE [error |-> "none",
          charts |-> BuildChartSurfaces(args[1], args[2], args[3], args[4], args[5])]

\* The charts the daily view leaves out.
ExcludedInDaily ==
    {"Daily Mean Real Power", "Daily Mean Reactive Power",
     "Weekly Mean Real Power", "Weekly Mean Reactive Power"}

\* run() up to its first _reload_dataset(): the local state as initialised.
\* phase tells where run() is: "setup" before that call, "loop" in the event
\* loop, "exited" after running became False, "raised" once an exception has
\* left run(); "off" is the dashboard not started.
InitialUi(phase) ==
    [phase |-> phase,
     error |-> "none",
     dataset |-> <<>>,
     period_options |-> [overall |-> <<AllData>>, monthly |-> <<>>, daily |-> <<>>],
     view_mode |-> "overall",
     period_index |-> 0,
     active_period |-> AllData,
     stats |-> <<>>,
     comparison |-> <<>>,
     quality |-> <<>>,
     faults |-> <<>>,
     charts |-> <<>>,
     chart_index |-> 0,
     has_period_nav |-> FALSE,
     multi_charts |-> FALSE,
     status_message |-> ""]

NotRunning == InitialUi("off")

\* _current_period_list()
CurrentPeriodList(u) == u.period_options[u.view_mode]

\* max(0, min(index, length - 1))
ClampIndex(index, length) ==
    IF index > length - 1
    THEN (IF length - 1 < 0 THEN 0 ELSE length - 1)
    ELSE IF index < 0 THEN 0 ELSE index

\* _sync_button_states(): which navigation buttons are enabled.
SyncButtonStates(u) ==
    [u EXCEPT !.has_period_nav = u.view_mode # "overall" /\ Len(CurrentPeriodList(u)) > 1,
              !.multi_charts = Len(u.charts) > 1]

\* _refresh_analysis(): the period is clamped and made the active one, the
\* dataset is filtered, and the tables and charts are computed from the rows
\* left. The call of build_chart_surfaces passes four arguments; when it
\* raises, the assignments before it stay and those after it are not made.
RefreshAnalysis(u) ==
    LET period_list == CurrentPeriodList(u)
        index == IF period_list = <<>> THEN u.period_index
                 ELSE ClampIndex(u.period_index, Len(period_list))
        active == IF period_list = <<>> THEN AllData ELSE period_list[index + 1]
        filtered == FilterDataframe(u.dataset, u.view_mode, active)
        selected == [u EXCEPT !.period_index = index, !.active_period = active]
    IN IF filtered = <<>>
       THEN SyncButtonStates([selected EXCEPT !.stats = <<>>,
                                              !.comparison = <<>>,
                                              !.quality = <<>>,
                                              !.faults = <<>>,
                                              !.charts = <<>>,
                                              !.chart_index = 0])
       ELSE LET frame == Frame("filtered", filtered)
                comparison == CompareToStandards(frame, DefaultStandards).table
                patterns == IdentifyLoadPatterns(frame).table
                built == CallBuildChartSurfaces(<<patterns.daily, patterns.weekly,
                                                  patterns.hourly_profile, comparison>>)
                charts == IF u.view_mode = "daily"
                          THEN SelectSeq(built.charts, LAMBDA name : name \notin ExcludedInDaily)
                          ELSE built.charts
                analysed ==
                    [selected EXCEPT
                        !.stats = CalculateBasicStatistics(frame).table,
                        !.comparison = comparison,
                        !.quality = CalculatePowerQualityIndices(frame, DefaultStandards).table,
                        !.faults = PerformFaultAnalysis(frame, DefaultStandards).table]
            IN IF built.error # "none"
               THEN [analysed EXCEPT !.phase = "raised", !.error = built.error]
               ELSE SyncButtonStates(
                        [analysed EXCEPT
                            !.charts = charts,
                            !.chart_index = IF charts = <<>> THEN 0
                                            ELSE IF u.chart_index < Len(charts) - 1
                                                 THEN u.chart_index
                                                 ELSE Len(charts) - 1])

\* _reload_dataset() on the table load_dataset() returned: the period options
\* are rebuilt, a mode left without periods falls back to "overall", the
\* period index is clamped, and the analysis is refreshed.
ReloadDataset(u, rows) ==
    LET options == BuildPeriodOptions(rows)
        fallback == u.view_mode # "overall" /\ options[u.view_mode] = <<>>
        mode == IF fallback THEN "overall" ELSE u.view_mode
        index == IF fallback THEN 0 ELSE u.period_index
    IN RefreshAnalysis([u EXCEPT !.dataset = rows,
                                 !.period_options = options,
                                 !.view_mode = mode,
                                 !.period_index = ClampIndex(index, Len(options[mode]))])

\* The position of a mode in VIEW_MODES, from 0.
ModeIndex(mode) == (CHOOSE i \in 1..Len(VIEW_MODES) : VIEW_MODES[i] = mode) - 1

\* The mode _advance_mode() picks: the first after view_mode, in cyclic
\* order, that is "overall" or has period options.
RECURSIVE NextModeFrom(_, _, _)
NextModeFrom(options, idx, tries) ==
    IF tries = 0 THEN "overall"
    ELSE LET next == (idx + 1) % Len(VIEW_MODES)
             candidate == VIEW_MODES[next + 1]
         IN IF candidate = "overall" \/ options[candidate] # <<>>
            THEN candidate
            ELSE NextModeFrom(options, next, tries - 1)

\* _mode_label(value)
ModeLabel(mode) ==
    IF mode = "overall" THEN "Whole Dataset"
    ELSE IF mode = "monthly" THEN "Monthly" ELSE "Daily"

\* _set_status(message), unless the handler has raised before reaching it.
SetStatus(u, message) ==
    IF u.phase = "raised" THEN u ELSE [u EXCEPT !.status_message = message]

\* _advance_mode() and the status line of the "cycle_mode" action.
AdvanceMode(u) ==
    LET mode == NextModeFrom(u.period_options, ModeIndex(u.view_mode), Len(VIEW_MODES))
        after == RefreshAnalysis([u EXCEPT !.view_mode = mode, !.period_index = 0])
    IN SetStatus(after, ModeLabel(after.view_mode))

\* _apply_action("next_chart") and ("prev_chart"): step is 1 or -1.
StepChart(u, step) ==
    IF u.charts = <<>> THEN u
    ELSE IF Len(u.charts) > 1
    THEN SetStatus([u EXCEPT !.chart_index = (u.chart_index + step) % Len(u.charts)],
                   "Showing chart")
    ELSE SetStatus(u, "Only one chart available")

\* _apply_action("next_period") and ("prev_period"): step is 1 or -1.
StepPeriod(u, step) ==
    LET period_list == CurrentPeriodList(u)
    IN IF u.view_mode = "overall" \/ period_list = <<>> \/ Len(period_list) <= 1
       THEN u
       ELSE SetStatus(RefreshAnalysis([u EXCEPT !.period_index =
                                          (u.period_index + step) % Len(period_list)]),
                      "Period")

----------------------------------------------------------------------------
\* The caller: a table as load_power_data returned it, and calls of the
\* analysis functions on it in any order, each with standards of its choice.
\* The table has at least one row: the callers analyse no empty table
\* (src/dashboard/app.py skips the calls when the filtered table is empty), and
\* what pandas returns for one is not modelled.

VARIABLES
    csv,      \* the source file: its columns and records
    df,       \* the caller's DataFrame object
    loaded,   \* the rows of df when it was loaded
    ret,      \* the last call: function, standards passed, outcome
    calls,    \* the analysis calls made so far: "none", "one" or "several"
    cache,    \* dashboard.data_loader: the data file and the lru_cache entries
    ui        \* dashboard.app: the local state of run()

vars == <<csv, df, loaded, ret, calls, cache, ui>>

\* The well-formed source file with the rows `rows`.
SourceOf(rows) ==
    [columns |-> BaseColumns,
     records |-> [i \in 1..Len(rows) |->
                    [rows[i] EXCEPT !.timestamp = [parseable |-> TRUE, key |-> @]]]]

NoCall == [op |-> "none", standards |-> DefaultStandards, error |-> "none", table |-> <<>>]

Init ==
    /\ \E n \in 1..MaxRows :
        \E rows \in TablesOf(n) :
            /\ SortedByTimestamp(rows)
            /\ csv = SourceOf(rows)
            /\ df = Frame("df", rows)
            /\ loaded = rows
    /\ ret = NoCall
    /\ calls = "none"
    /\ cache = NoCache
    /\ ui = NotRunning

Returned(op, standards, r) ==
    /\ ret' = [op |-> op, standards |-> standards, error |-> r.error, table |-> r.table]
    /\ df' = r.caller
    /\ calls' = IF calls = "none" THEN "one" ELSE "several"
    /\ UNCHANGED <<csv, loaded, cache, ui>>

BasicStatistics ==
    Returned("calculate_basic_statistics", DefaultStandards, CalculateBasicStatistics(df))

LoadPatterns ==
    Returned("identify_load_patterns", DefaultStandards, IdentifyLoadPatterns(df))

Compliance ==
    \E standards \in ThresholdStandards :
        Returned("compare_to_standards", standards, CompareToStandards(df, standards))

QualityIndices ==
    \E standards \in QualityStandards :
        Returned("calculate_power_quality_indices", standards,
                 CalculatePowerQualityIndices(df, standards))

CircuitMetrics ==
    \E standards \in TargetStandards :
        Returned("calculate_circuit_metrics", standards,
                 CalculateCircuitMetrics(df, standards))

FaultAnalysis ==
    \E standards \in ThresholdStandards :
        Returned("perform_fault_analysis", standards, PerformFaultAnalysis(df, standards))

Next ==
    \/ BasicStatistics
    \/ LoadPatterns
    \/ Compliance
    \/ QualityIndices
    \/ CircuitMetrics
    \/ FaultAnalysis

Spec == Init /\ [][Next]_vars

\* The load patterns: tables whose samples lie hours, days and weeks apart,
\* and calls of identify_load_patterns on them.

\* Sample times, in hours since 2024-01-01 00:00 (a Monday): Monday 00:00 and
\* 23:00, Tuesday 00:00, Thursday 00:00, Sunday 00:00 and 23:00, the next
\* Monday 00:00, and the Monday after that.
PatternHours == {0, 23, 24, 72, 144, 167, 168, 336}

\* The tables of n samples taken at any of the sample times, at any station,
\* with either of two readings.
PatternTablesOf(n) ==
    {[i \in 1..n |-> MeasurementRow(choice[i][1], choice[i][2], choice[i][3])] :
        choice \in [1..n -> PatternHours \X StationIds \X SourceReadings]}

PatternInit ==
    /\ \E n \in 1..MaxRows :
        \E rows \in PatternTablesOf(n) :
            /\ SortedByTimestamp(rows)
            /\ csv = SourceOf(rows)
            /\ df = Frame("df", rows)
            /\ loaded = rows
    /\ ret = NoCall
    /\ calls = "none"
    /\ cache = NoCache
    /\ ui = NotRunning

PatternNext == LoadPatterns

PatternSpec == PatternInit /\ [][PatternNext]_vars

\* Percentages in the arithmetic of the machine. A boolean series' mean() is
\* the double nearest to count / length, and `* 100` rounds once more. A
\* double's 53-bit significand is wider than the checker's integers, so it is
\* held in limbs of LimbBits bits, least significant first.

\* The significand width of a double.
Precision == 53

LimbBits == 12

\* 2^i for i in 0..LimbBits.
Pow2(i) == <<1, 2, 4, 8, 16, 32, 64, 128, 256, 512, 1024, 2048, 4096>>[i + 1]

Base == Pow2(LimbBits)

MantLimbs == (Precision + LimbBits - 1) \div LimbBits

\* A natural number as its limbs, without leading zero limbs.
RECURSIVE LimbsOf(_)
LimbsOf(n) == IF n = 0 THEN <<>> ELSE <<n % Base>> \o LimbsOf(n \div Base)

Reverse(seq) == [i \in 1..Len(seq) |-> seq[Len(seq) + 1 - i]]

RECURSIVE StripLeading(_)
StripLeading(limbs) ==
    IF limbs = <<>> \/ limbs[Len(limbs)] # 0 THEN limbs
    ELSE StripLeading(SubSeq(limbs, 1, Len(limbs) - 1))

\* Binary digit i of a number, digit 0 the lowest.
Bit(limbs, i) ==
    IF i < 0 \/ i \div LimbBits >= Len(limbs) THEN 0
    ELSE (limbs[i \div LimbBits + 1] \div Pow2(i % LimbBits)) % 2

RECURSIVE BitLenOf(_)
BitLenOf(v) == IF v = 0 THEN 0 ELSE 1 + BitLenOf(v \div 2)

BitLen(limbs) ==
    IF limbs = <<>> THEN 0 ELSE LimbBits * (Len(limbs) - 1) + BitLenOf(limbs[Len(limbs)])

\* Limb j of a number, limb 0 the lowest; 0 outside it.
LimbAt(limbs, j) == IF j < 0 \/ j >= Len(limbs) THEN 0 ELSE limbs[j + 1]

\* The number made of the LimbBits binary digits from digit `from` on: the
\* high digits of one limb and the low digits of the next.
BitsValue(limbs, from) ==
    LET j == IF from >= 0 THEN from \div LimbBits ELSE -((LimbBits - 1 - from) \div LimbBits)
        r == from - LimbBits * j
    IN LimbAt(limbs, j) \div Pow2(r) + (LimbAt(limbs, j + 1) % Pow2(r)) * Pow2(LimbBits - r)

\* floor(number * 2^shift), in `width` limbs.
Shifted(limbs, shift, width) ==
    [j \in 1..width |-> BitsValue(limbs, LimbBits * (j - 1) - shift)]

RECURSIVE LimbsAdd(_, _, _)
LimbsAdd(a, b, carry) ==
    IF a = <<>> /\ b = <<>> THEN LimbsOf(carry)
    ELSE LET x == IF a = <<>> THEN 0 ELSE Head(a)
             y == IF b = <<>> THEN 0 ELSE Head(b)
             sum == x + y + carry
         IN <<sum % Base>> \o LimbsAdd(IF a = <<>> THEN a ELSE Tail(a),
                                       IF b = <<>> THEN b ELSE Tail(b), sum \div Base)

RECURSIVE LimbsTimes(_, _, _)
LimbsTimes(a, k, carry) ==
    IF a = <<>> THEN LimbsOf(carry)
    ELSE LET sum == Head(a) * k + carry
         IN <<sum % Base>> \o LimbsTimes(Tail(a), k, sum \div Base)

\* The number below a positive one.
RECURSIVE LimbsDecrement(_)
LimbsDecrement(a) ==
    IF Head(a) > 0 THEN <<Head(a) - 1>> \o Tail(a)
    ELSE <<Base - 1>> \o LimbsDecrement(Tail(a))

\* A double: mant * 2^exp with a mant of exactly Precision binary digits, or 0.0.
DoubleZero == [mant |-> <<>>, exp |-> 0]

\* The double nearest to a positive number * 2^exp, ties to even; `inexact`
\* says that the number stands for a value slightly above it.
RoundToDouble(limbs, inexact, exp) ==
    LET d == BitLen(limbs) - Precision
    IN IF limbs = <<>> THEN DoubleZero
       ELSE IF d <= 0 THEN [mant |-> Shifted(limbs, -d, MantLimbs), exp |-> exp + d]
       ELSE LET kept == Shifted(limbs, -d, MantLimbs)
                sticky == inexact \/ \E i \in 0..(d - 2) : Bit(limbs, i) = 1
                up == Bit(limbs, d - 1) = 1 /\ (sticky \/ Bit(limbs, d) = 1)
                m == IF up THEN LimbsAdd(kept, <<1>>, 0) ELSE kept
            IN IF BitLen(m) > Precision
               THEN [mant |-> Shifted(m, -1, MantLimbs), exp |-> exp + d + 1]
               ELSE [mant |-> m, exp |-> exp + d]

DoubleOf(n) == RoundToDouble(LimbsOf(n), FALSE, 0)

\* The limbs of r / n after the point, most significant first.
RECURSIVE FractionLimbs(_, _, _)
FractionLimbs(r, n, count) ==
    IF count = 0 THEN <<>>
    ELSE <<(r * Base) \div n>> \o FractionLimbs((r * Base) % n, n, count - 1)

RECURSIVE RemainderAfter(_, _, _)
RemainderAfter(r, n, count) ==
    IF count = 0 THEN r ELSE RemainderAfter((r * Base) % n, n, count - 1)

\* The double nearest to k / n, 0 <= k < 2^8 and 0 < n < 2^8: the quotient to
\* MantLimbs + 1 limbs after the point, and whether anything was left.
DoubleDiv(k, n) ==
    LET count == MantLimbs + 1
        quotient == <<k \div n>> \o FractionLimbs(k % n, n, count)
    IN RoundToDouble(StripLeading(Reverse(quotient)),
                     RemainderAfter(k % n, n, count) # 0, -(LimbBits * count))

\* x * k for a whole k, 0 < k < 2^8.
DoubleTimes(x, k) ==
    IF x.mant = <<>> THEN DoubleZero
    ELSE RoundToDouble(StripLeading(LimbsTimes(x.mant, k, 0)), FALSE, x.exp)

\* The limbs that hold both significands of two doubles on one exponent.
CommonWidth(x, y) == MantLimbs + 1 + Abs(x.exp - y.exp) \div LimbBits

DoubleAdd(x, y) ==
    IF x.mant = <<>> THEN y
    ELSE IF y.mant = <<>> THEN x
    ELSE LET e == IF x.exp < y.exp THEN x.exp ELSE y.exp
             a == Shifted(x.mant, x.exp - e, CommonWidth(x, y))
             b == Shifted(y.mant, y.exp - e, CommonWidth(x, y))
         IN RoundToDouble(StripLeading(LimbsAdd(a, b, 0)), FALSE, e)

\* Series.mean() of a non-empty boolean series, as a double.
DoubleBoolMean(bs) == DoubleDiv(Len(SelectSeq(bs, LAMBDA b : b)), Len(bs))

\* `series.mean() * 100` of a boolean series.
PctOfTrue(bs) == DoubleTimes(DoubleBoolMean(bs), 100)

\* A variant of PfInBand: the threshold itself left out.
PfInBandStrict(group, standards) ==
    [i \in 1..Len(group) |-> group[i].power_factor > standards.power_factor_min]

\* pf_in_band of compare_to_standards.
PfInBand(group, standards) ==
    [i \in 1..Len(group) |-> group[i].power_factor >= standards.power_factor_min]

\* A variant of CurrentInBand: the limit itself left out.
CurrentInBandStrict(group, standards) ==
    [i \in 1..Len(group) |-> group[i].current_pu < standards.current_max]

\* current_in_band of compare_to_standards.
CurrentInBand(group, standards) ==
    [i \in 1..Len(group) |-> group[i].current_pu <= standards.current_max]

\* low_pf_pct of calculate_power_quality_indices.
LowPfPct(series, standards) ==
    PctOfTrue([i \in 1..Len(series) |-> series[i] < standards.power_factor_min])

\* The columns of one station that the three analyses derive from the
\* power-factor and current thresholds, the percentages as doubles.
ThresholdRow(station, group, standards) ==
    [station_id |-> station,
     power_factor_within_pct |-> PctOfTrue(PfInBand(group, standards)),
     current_within_pct |-> PctOfTrue(CurrentInBand(group, standards)),
     low_power_factor_pct |-> LowPfPct(Column(group, "power_factor"), standards),
     over_current_events |-> Len(OverCurrent(group, standards))]

\* compare_to_standards, calculate_power_quality_indices and
\* perform_fault_analysis on one table under one set of standards, as
\* run_analysis calls them; each groups by station_id.
ThresholdColumns(frame, standards) ==
    LET keys == GroupKeys(frame.rows)
    IN [error |-> "none",
        table |-> [k \in 1..Len(keys) |->
                      ThresholdRow(keys[k], GroupRows(frame.rows, keys[k]), standards)],
        caller |-> frame]

\* The reactive correction in the arithmetic of the machine, for stations
\* whose powers are not negative.

RECURSIVE LimbsSub(_, _, _)
LimbsSub(a, b, borrow) ==
    IF a = <<>> THEN <<>>
    ELSE LET y == (IF b = <<>> THEN 0 ELSE Head(b)) + borrow
             rest == IF b = <<>> THEN b ELSE Tail(b)
         IN IF Head(a) >= y THEN <<Head(a) - y>> \o LimbsSub(Tail(a), rest, 0)
            ELSE <<Head(a) + Base - y>> \o LimbsSub(Tail(a), rest, 1)

\* a < b for numbers of the same count of limbs.
LimbsLess(a, b) ==
    \E i \in 1..Len(a) : a[i] < b[i] /\ \A j \in (i + 1)..Len(a) : a[j] = b[j]

DoubleLess(x, y) ==
    IF y.mant = <<>> THEN FALSE
    ELSE IF x.mant = <<>> THEN TRUE
    ELSE x.exp < y.exp \/ (x.exp = y.exp /\ LimbsLess(x.mant, y.mant))

\* x - y for doubles x >= y.
DoubleSub(x, y) ==
    IF y.mant = <<>> THEN x
    ELSE LET e == IF x.exp < y.exp THEN x.exp ELSE y.exp
             a == Shifted(x.mant, x.exp - e, CommonWidth(x, y))
             b == Shifted(y.mant, y.exp - e, CommonWidth(x, y))
         IN RoundToDouble(StripLeading(LimbsSub(a, b, 0)), FALSE, e)

\* What the math library may return in the last place of a result.
LibraryRounding == {-1, 0, 1}

Nudged(x, offset) ==
    IF x.mant = <<>> \/ offset = 0 THEN x
    ELSE IF offset > 0 THEN [x EXCEPT !.mant = LimbsAdd(@, <<1>>, 0)]
    ELSE [x EXCEPT !.mant = LimbsDecrement(@)]

\* np.tan(target_angle_rad) for the targets 0.95, 0.90 and 0.80, to the last
\* place or next to it: 0.3286841051788632, 0.48432210483785254 and
\* 0.7499999999999998. The angle is 0, and its tangent 0.0, for the targets
\* 0 and 1.
TargetAngleTan(target_pf, rounding) ==
    Nudged(CASE target_pf = 95 -> [mant |-> <<981, 2517, 2318, 146, 21>>, exp |-> -54]
             [] target_pf = 90 -> [mant |-> <<2716, 1032, 548, 4082, 30>>, exp |-> -54]
             [] target_pf = 80 -> [mant |-> <<4094, 4095, 4095, 4095, 23>>, exp |-> -53]
             [] OTHER -> DoubleZero,
           rounding)

\* target_reactive for a whole avg_real >= 0.
TargetReactiveDouble(avg_real, tan) ==
    IF avg_real # 0 THEN DoubleTimes(tan, avg_real) ELSE DoubleZero

\* A variant of ReactiveCorrectionDouble: all of the reactive power.
ReactiveCorrectionToUnity(avg_reactive, target_reactive) == avg_reactive

\* reactive_correction = max(0.0, avg_reactive - target_reactive).
ReactiveCorrectionDouble(avg_reactive, target_reactive) ==
    IF DoubleLess(target_reactive, avg_reactive)
    THEN DoubleSub(avg_reactive, target_reactive)
    ELSE DoubleZero

\* The station's row, of a group whose real power is one whole number in
\* every sample and whose reactive powers are whole and not negative: the
\* averages, the target angle (held by its tangent) and the correction.
CorrectionRow(station, group, standards, rounding) ==
    LET target_pf == TargetPf(standards)
        tan == TargetAngleTan(target_pf, rounding)
        avg_real == group[1].real_power_mw
        avg_reactive == DoubleDiv(SeqSum(Column(group, "reactive_power_mvar")), Len(group))
        target_reactive == TargetReactiveDouble(avg_real, tan)
    IN [station_id |-> station,
        avg_real_power_mw |-> avg_real,
        avg_reactive_power_mvar |-> avg_reactive,
        target_power_factor |-> target_pf,
        target_phase_angle_tan |-> tan,
        required_reactive_correction_mvar |->
            ReactiveCorrectionDouble(avg_reactive, target_reactive)]

CorrectionTable(frame, standards, rounding) ==
    LET keys == GroupKeys(frame.rows)
    IN [error |-> "none",
        table |-> [k \in 1..Len(keys) |->
                      CorrectionRow(keys[k], GroupRows(frame.rows, keys[k]), standards,
                                    rounding)],
        caller |-> frame]

\* The circuit metrics of stations at unity power factor: tables of samples
\* without reactive power, beside one with some, and calls of
\* calculate_circuit_metrics on them.

\* Samples as <<voltage_pu, current_pu, power_factor, real_power_mw,
\* reactive_power_mvar>>.
UnityReadings ==
    {[voltage_pu |-> m[1], current_pu |-> m[2], power_factor |-> m[3],
      real_power_mw |-> m[4], reactive_power_mvar |-> m[5]] :
        m \in {<<100, 50, 100, 4, 0>>, <<100, 50, 100, 2, 0>>, <<100, 50, 80, 4, 3>>}}

UnityTablesOf(n) ==
    {[i \in 1..n |-> MeasurementRow(i - 1, choice[i][1], choice[i][2])] :
        choice \in [1..n -> StationIds \X UnityReadings]}

CircuitInit ==
    /\ \E n \in 1..MaxRows :
        \E rows \in UnityTablesOf(n) :
            /\ SortedByTimestamp(rows)
            /\ csv = SourceOf(rows)
            /\ df = Frame("df", rows)
            /\ loaded = rows
    /\ ret = NoCall
    /\ calls = "none"
    /\ cache = NoCache
    /\ ui = NotRunning

CircuitNext == CircuitMetrics

CircuitSpec == CircuitInit /\ [][CircuitNext]_vars

\* The thresholds across the analyses: tables of up to MaxSamples samples
\* lying on and beside the power-factor and current thresholds, and the three
\* analyses run on them under the same standards.
MaxSamples == 3

ThresholdReadings ==
    {[voltage_pu |-> m[1], current_pu |-> m[2], power_factor |-> m[3],
      real_power_mw |-> m[4], reactive_power_mvar |-> m[5]] :
        m \in {<<100, 120, 90, 4, 3>>, <<100, 130, 80, 0, 0>>, <<80, 130, 70, -4, 0>>}}

ThresholdTablesOf(n) ==
    {[i \in 1..n |-> MeasurementRow(i - 1, choice[i][1], choice[i][2])] :
        choice \in [1..n -> StationIds \X ThresholdReadings]}

ThresholdInit ==
    /\ \E n \in 1..MaxSamples :
        \E rows \in ThresholdTablesOf(n) :
            /\ SortedByTimestamp(rows)
            /\ csv = SourceOf(rows)
            /\ df = Frame("df", rows)
            /\ loaded = rows
    /\ ret = NoCall
    /\ calls = "none"
    /\ cache = NoCache
    /\ ui = NotRunning

ThresholdAnalysis ==
    \E standards \in ThresholdStandards :
        Returned("run_analysis", standards, ThresholdColumns(df, standards))

ThresholdNext == ThresholdAnalysis

ThresholdSpec == ThresholdInit /\ [][ThresholdNext]_vars

\* The correction to the last place: stations drawing 4 MW with whole
\* reactive powers below and above the target's, and calls of
\* calculate_circuit_metrics under targets whose angle is not 0 and under 1.
CorrectionReadings ==
    {[voltage_pu |-> m[1], current_pu |-> m[2], power_factor |-> m[3],
      real_power_mw |-> m[4], reactive_power_mvar |-> m[5]] :
        m \in {<<100, 50, 97, 4, 1>>, <<100, 50, 80, 4, 3>>, <<100, 50, 37, 4, 10>>}}

CorrectionTablesOf(n) ==
    {[i \in 1..n |-> MeasurementRow(i - 1, choice[i][1], choice[i][2])] :
        choice \in [1..n -> StationIds \X CorrectionReadings]}

CorrectionStandards ==
    {[DefaultStandards EXCEPT !.power_factor_target = t] : t \in {80, 90, 95, 100}}

CorrectionInit ==
    /\ \E n \in 1..MaxRows :
        \E rows \in CorrectionTablesOf(n) :
            /\ SortedByTimestamp(rows)
            /\ csv = SourceOf(rows)
            /\ df = Frame("df", rows)
            /\ loaded = rows
    /\ ret = NoCall
    /\ calls = "none"
    /\ cache = NoCache
    /\ ui = NotRunning

CorrectionMetrics ==
    \E standards \in CorrectionStandards, rounding \in LibraryRounding :
        Returned("calculate_circuit_metrics", standards,
                 CorrectionTable(df, standards, rounding))

CorrectionNext == CorrectionMetrics

CorrectionSpec == CorrectionInit /\ [][CorrectionNext]_vars

\* The loader: a source file, and one call of load_power_data on it.

NotLoaded == [id |-> "none", rows |-> <<>>, index |-> "none", columns |-> {}]

LoaderInit ==
    /\ \E n \in 1..MaxRows : csv \in SourcesOf(n)
    /\ df = NotLoaded
    /\ loaded = <<>>
    /\ ret = NoCall
    /\ calls = "none"
    /\ cache = NoCache
    /\ ui = NotRunning

\* read_csv raised: load_power_data returns no table.
LoadFailed ==
    /\ df = NotLoaded /\ ret = NoCall
    /\ ReadCsv(csv).error # "none"
    /\ ret' = [op |-> "load_power_data", standards |-> DefaultStandards,
               error |-> ReadCsv(csv).error, table |-> <<>>]
    /\ UNCHANGED <<csv, df, loaded, calls, cache, ui>>

\* read_csv returned: the table is sorted in place and returned.
LoadReturned ==
    /\ df = NotLoaded /\ ret = NoCall
    /\ ReadCsv(csv).error = "none"
    /\ \E sorted \in SortValues(ReadCsv(csv).rows, ReadCsv(csv).timestamp_dtype) :
        /\ ret' = [op |-> "load_power_data", standards |-> DefaultStandards,
                   error |-> "none",
                   table |-> [rows |-> sorted,
                              timestamp_dtype |-> ReadCsv(csv).timestamp_dtype]]
        /\ df' = [Frame("df", sorted) EXCEPT !.columns = csv.columns]
        /\ loaded' = sorted
    /\ UNCHANGED <<csv, calls, cache, ui>>

LoaderNext ==
    \/ LoadFailed
    \/ LoadReturned

LoaderSpec == LoaderInit /\ [][LoaderNext]_vars

----------------------------------------------------------------------------
\* dashboard.data_loader in use: loader calls by any caller, changes of the
\* data file by its owner, and clear_cache(). The calls are made one at a
\* time (the module starts no thread).

\* The reads of the data file a run makes at most.
MaxReads == 3

\* The states of the data file while the loaders are called: missing, or
\* holding one of the first contents of DataFiles.
CacheFiles == {Unreadable} \cup (1..2)

CacheInit ==
    /\ csv = SourceOf(<<>>)
    /\ df = NotLoaded
    /\ loaded = <<>>
    /\ ret = NoCall
    /\ calls = "none"
    /\ \E file \in CacheFiles : cache = ColdCache(file)
    /\ ui = NotRunning

\* What a loader call returned, as the cache records it.
ReturnedBy(loader, r) ==
    [loader |-> loader, error |-> r.error, read |-> r.value.read, file |-> r.value.file]

LoaderCall ==
    /\ \E loader \in Loaders :
        LET r == CachedCall(cache, loader)
        IN /\ r.cache.reads <= MaxReads
           /\ cache' = [r.cache EXCEPT !.returned = ReturnedBy(loader, r)]
    /\ UNCHANGED <<csv, df, loaded, ret, calls, ui>>

\* The data file is replaced, or removed.
DataFileChanges ==
    /\ \E file \in CacheFiles \ {cache.file} :
        cache' = [cache EXCEPT !.file = file]
    /\ UNCHANGED <<csv, df, loaded, ret, calls, ui>>

ClearCache ==
    /\ cache' = ClearedCache(cache)
    /\ UNCHANGED <<csv, df, loaded, ret, calls, ui>>

CacheNext ==
    \/ LoaderCall
    \/ DataFileChanges
    \/ ClearCache

CacheSpec == CacheInit /\ [][CacheNext]_vars

----------------------------------------------------------------------------
\* dashboard.app: run() from its first _reload_dataset() on, with the actions
\* the keys and buttons map to, while the data file is replaced by readable
\* files. app.py imports load_dataset from data_loader, which defines
\* _load_dataset only: the name is read as that function.

DashboardInit ==
    /\ csv = SourceOf(<<>>)
    /\ df = NotLoaded
    /\ loaded = <<>>
    /\ ret = NoCall
    /\ calls = "none"
    /\ \E file \in 1..Len(DataFiles) : cache = ColdCache(file)
    /\ ui = InitialUi("setup")

\* The event loop is entered unless the set-up raised.
EnterLoop(u) == IF u.phase = "raised" THEN u ELSE [u EXCEPT !.phase = "loop"]

\* _reload_dataset() at the end of the set-up.
Start ==
    /\ ui.phase = "setup"
    /\ LET r == CachedCall(cache, "_load_dataset")
       IN /\ cache' = [r.cache EXCEPT !.returned = ReturnedBy("_load_dataset", r)]
          /\ ui' = EnterLoop(ReloadDataset(ui, DataFiles[r.value.file]))
    /\ UNCHANGED <<csv, df, loaded, ret, calls>>

NextChart ==
    /\ ui.phase = "loop"
    /\ ui' = StepChart(ui, 1)
    /\ UNCHANGED <<csv, df, loaded, ret, calls, cache>>

PrevChart ==
    /\ ui.phase = "loop"
    /\ ui' = StepChart(ui, -1)
    /\ UNCHANGED <<csv, df, loaded, ret, calls, cache>>

NextPeriod ==
    /\ ui.phase = "loop"
    /\ ui' = StepPeriod(ui, 1)
    /\ UNCHANGED <<csv, df, loaded, ret, calls, cache>>

PrevPeriod ==
    /\ ui.phase = "loop"
    /\ ui' = StepPeriod(ui, -1)
    /\ UNCHANGED <<csv, df, loaded, ret, calls, cache>>

CycleMode ==
    /\ ui.phase = "loop"
    /\ ui' = AdvanceMode(ui)
    /\ UNCHANGED <<csv, df, loaded, ret, calls, cache>>

\* "reload": clear_cache(), then _reload_dataset().
Reload ==
    /\ ui.phase = "loop"
    /\ cache.reads < MaxReads
    /\ LET r == CachedCall(ClearedCache(cache), "_load_dataset")
       IN /\ cache' = [r.cache EXCEPT !.returned = ReturnedBy("_load_dataset", r)]
          /\ ui' = SetStatus(ReloadDataset(ui, DataFiles[r.value.file]), "Data reloaded")
    /\ UNCHANGED <<csv, df, loaded, ret, calls>>

\* "exit"
Exit ==
    /\ ui.phase = "loop"
    /\ ui' = [ui EXCEPT !.phase = "exited"]
    /\ UNCHANGED <<csv, df, loaded, ret, calls, cache>>

\* The data file is replaced while the dashboard runs.
DataFileReplaced ==
    /\ ui.phase \in {"setup", "loop"}
    /\ \E file \in (1..Len(DataFiles)) \ {cache.file} :
        cache' = [cache EXCEPT !.file = file]
    /\ UNCHANGED <<csv, df, loaded, ret, calls, ui>>

DashboardNext ==
    \/ Start
    \/ NextChart
    \/ PrevChart
    \/ NextPeriod
    \/ PrevPeriod
    \/ CycleMode
    \/ Reload
    \/ Exit
    \/ DataFileReplaced

DashboardSpec == DashboardInit /\ [][DashboardNext]_vars

----------------------------------------------------------------------------
\* What the claims are stated with: the rows of the loaded table, counted and
\* summed by station without the functions' own helpers.

LoadedStations == {loaded[i].station_id : i \in 1..Len(loaded)}

RowsAt(station) == {i \in 1..Len(loaded) : loaded[i].station_id = station}

CountAt(station, Test(_)) == Cardinality({i \in RowsAt(station) : Test(loaded[i])})

RECURSIVE SumOver(_, _)
SumOver(indices, field) ==
    IF indices = {} THEN 0
    ELSE LET i == CHOOSE j \in indices : TRUE
         IN loaded[i][field] + SumOver(indices \ {i}, field)

MeanAt(station, field) == Rat(SumOver(RowsAt(station), field), Cardinality(RowsAt(station)))

MaxAt(station, field) ==
    CHOOSE m \in {loaded[i][field] : i \in RowsAt(station)} :
        \A i \in RowsAt(station) : loaded[i][field] <= m

TableStations(table) == {table[k].station_id : k \in 1..Len(table)}

OnePerStation(table) ==
    \A j, k \in 1..Len(table) : table[j].station_id = table[k].station_id => j = k

Ran(op) == ret.op = op /\ ret.error = "none"

Zero == FromInt(0)

Hundred == FromInt(100)

Pct(count, total) == Rat(100 * count, total)

IsSag(r) == r.voltage_pu < ret.standards.voltage_fault_min

IsSwell(r) == r.voltage_pu > ret.standards.voltage_fault_max

IsOverCurrent(r) == r.current_pu > ret.standards.current_max

IsVeryLowPf(r) == r.power_factor < ret.standards.power_factor_fault

IsFault(r) == IsSag(r) \/ IsSwell(r) \/ IsOverCurrent(r) \/ IsVeryLowPf(r)

----------------------------------------------------------------------------
\* C1: perform_fault_analysis reports, for every station, four independent
\* counts over that station's own rows: rows with voltage strictly below
\* voltage_fault_min, strictly above voltage_fault_max, current strictly above
\* current_max, power factor strictly below power_factor_fault; a row meeting
\* several conditions counts under each, rows of other stations never count.
C1_FaultCounts ==
    Ran("perform_fault_analysis") =>
        /\ TableStations(ret.table) = LoadedStations
        /\ \A k \in 1..Len(ret.table) :
            LET rec == ret.table[k]
            IN /\ rec.voltage_sag_events = CountAt(rec.station_id, IsSag)
               /\ rec.voltage_swell_events = CountAt(rec.station_id, IsSwell)
               /\ rec.over_current_events = CountAt(rec.station_id, IsOverCurrent)
               /\ rec.very_low_pf_events = CountAt(rec.station_id, IsVeryLowPf)

\* A fault analysis of two stations in which one row was counted under three
\* conditions and the other station's counts differ.
C1_Witness ==
    /\ Ran("perform_fault_analysis")
    /\ Len(ret.table) = 2
    /\ ret.table[1].voltage_sag_events = 1
    /\ ret.table[1].over_current_events = 1
    /\ ret.table[1].very_low_pf_events = 1
    /\ ret.table[2].voltage_sag_events = 0
    /\ ret.table[2].over_current_events = 0

\* C2: first_fault and last_fault are the minimum and maximum timestamp over
\* the station's rows that triggered any of the four conditions; when none
\* did, both are None and the station's row is still there with four zero
\* counts.
C2_FirstLastFault ==
    Ran("perform_fault_analysis") =>
        \A station \in LoadedStations :
            \E k \in 1..Len(ret.table) :
                LET rec == ret.table[k]
                    times == {loaded[i].timestamp : i \in {j \in RowsAt(station) : IsFault(loaded[j])}}
                IN /\ rec.station_id = station
                   /\ IF times = {}
                      THEN /\ rec.first_fault = NoTimestamp
                           /\ rec.last_fault = NoTimestamp
                           /\ rec.voltage_sag_events = 0
                           /\ rec.voltage_swell_events = 0
                           /\ rec.over_current_events = 0
                           /\ rec.very_low_pf_events = 0
                      ELSE /\ rec.first_fault.present
                           /\ rec.last_fault.present
                           /\ rec.first_fault.timestamp \in times
                           /\ rec.last_fault.timestamp \in times
                           /\ \A t \in times : rec.first_fault.timestamp <= t
                           /\ \A t \in times : t <= rec.last_fault.timestamp

\* A station whose later row is a sag and whose earlier row is a very low
\* power factor only: the frames are concatenated out of time order, and the
\* first fault is strictly before the last.
C2_Witness ==
    /\ Ran("perform_fault_analysis")
    /\ Len(ret.table) = 1
    /\ ret.table[1].voltage_sag_events = 1
    /\ ret.table[1].very_low_pf_events = 1
    /\ ret.table[1].first_fault.present
    /\ ret.table[1].first_fault.timestamp < ret.table[1].last_fault.timestamp
    /\ IsSag(loaded[2])
    /\ ~IsSag(loaded[1])

InVoltageBand(r) ==
    ret.standards.voltage_min <= r.voltage_pu /\ r.voltage_pu <= ret.standards.voltage_max

InPfBand(r) == r.power_factor >= ret.standards.power_factor_min

InCurrentBand(r) == r.current_pu <= ret.standards.current_max

\* C3: compare_to_standards reports, for every station, the three percentages
\* as 100 x (that station's rows inside the band, both voltage ends inclusive)
\* / (that station's row count), never the size of the whole table.
C3_CompliancePct ==
    Ran("compare_to_standards") =>
        /\ TableStations(ret.table) = LoadedStations
        /\ \A k \in 1..Len(ret.table) :
            LET row == ret.table[k]
                n == Cardinality(RowsAt(row.station_id))
            IN /\ row.voltage_within_pct = Pct(CountAt(row.station_id, InVoltageBand), n)
               /\ row.power_factor_within_pct = Pct(CountAt(row.station_id, InPfBand), n)
               /\ row.current_within_pct = Pct(CountAt(row.station_id, InCurrentBand), n)

\* Two stations of one row each, the first with its voltage on voltage_min and
\* wholly inside every band, the second over the current limit: 100 and 0
\* although each station holds half of the table.
C3_Witness ==
    /\ Ran("compare_to_standards")
    /\ Len(ret.table) = 2
    /\ Len(loaded) = 2
    /\ loaded[1].station_id = "SUB_001"
    /\ loaded[1].voltage_pu = ret.standards.voltage_min
    /\ ret.table[1].voltage_within_pct = Hundred
    /\ ret.table[1].current_within_pct = Hundred
    /\ ret.table[2].current_within_pct = Zero

\* C4: each of the three percentages of every row returned by
\* compare_to_standards lies in [0, 100], whatever the table and standards.
C4_PctBounds ==
    Ran("compare_to_standards") =>
        \A k \in 1..Len(ret.table) :
            \A pct \in {ret.table[k].voltage_within_pct,
                        ret.table[k].power_factor_within_pct,
                        ret.table[k].current_within_pct} :
                FLe(Zero, pct) /\ FLe(pct, Hundred)

\* A station with two rows, both inside the voltage band and neither inside
\* the power-factor band: both ends of the interval are reached.
C4_Witness ==
    /\ Ran("compare_to_standards")
    /\ Len(ret.table) = 1
    /\ Len(loaded) = 2
    /\ ret.table[1].voltage_within_pct = Hundred
    /\ ret.table[1].power_factor_within_pct = Zero

InTargetRange(standards) ==
    0 < standards.power_factor_target /\ standards.power_factor_target <= 100

\* C5: for any power_factor_target in (0, 1], calculate_circuit_metrics
\* reports required_reactive_correction_mvar >= 0 and
\* required_capacitor_bank_kvar >= 0 for every station, whatever the signs of
\* the station's average real and reactive power.
C5_CorrectionNonNegative ==
    Ran("calculate_circuit_metrics") /\ InTargetRange(ret.standards) =>
        \A k \in 1..Len(ret.table) :
            /\ FLe(Zero, ret.table[k].required_reactive_correction_mvar)
            /\ FLe(Zero, ret.table[k].required_capacitor_bank_kvar)

\* Two stations under a target in (0, 1): one delivers real power and leads
\* (negative reactive power), and needs no correction; the other absorbs real
\* power, and needs some.
C5_Witness ==
    /\ Ran("calculate_circuit_metrics")
    /\ InTargetRange(ret.standards)
    /\ ret.standards.power_factor_target < 100
    /\ Len(ret.table) = 2
    /\ FLt(Zero, ret.table[1].avg_real_power_mw)
    /\ FLt(ret.table[1].avg_reactive_power_mvar, Zero)
    /\ ret.table[1].required_reactive_correction_mvar = Zero
    /\ FLt(ret.table[2].avg_real_power_mw, Zero)
    /\ FLt(Zero, ret.table[2].required_reactive_correction_mvar)

\* The target reactive power of a station as C6 states it.
TargetReactiveAt(station) ==
    LET avg_real == MeanAt(station, "real_power_mw")
    IN IF avg_real = Zero THEN Zero
       ELSE FMul(avg_real, TanOfAngle(TargetAngleCos(TargetPf(ret.standards))))

\* C6: the target reactive power of a station is its average real power times
\* tan(target angle), and exactly 0 when the average real power is 0; the
\* required correction is (average reactive - target reactive) when that is
\* positive and exactly 0 otherwise, so a station at or below the target
\* reactive power requires zero correction.
C6_TargetAndCorrection ==
    Ran("calculate_circuit_metrics") =>
        \A k \in 1..Len(ret.table) :
            LET row == ret.table[k]
                avg_reactive == MeanAt(row.station_id, "reactive_power_mvar")
                excess == FSub(avg_reactive, TargetReactiveAt(row.station_id))
            IN /\ row.required_reactive_correction_mvar
                    = (IF FLt(Zero, excess) THEN excess ELSE Zero)
               /\ FLe(avg_reactive, TargetReactiveAt(row.station_id))
                    => row.required_reactive_correction_mvar = Zero

\* Target 0.8 (tangent 3/4): a station at 4 MW and 3 MVAr sits exactly on the
\* target and needs no correction, one at 4 MW and 4 MVAr needs 1 MVAr.
C6_Witness ==
    /\ Ran("calculate_circuit_metrics")
    /\ ret.standards.power_factor_target = 80
    /\ Len(ret.table) = 2
    /\ ret.table[1].avg_real_power_mw = FromInt(4)
    /\ ret.table[1].avg_reactive_power_mvar = FromInt(3)
    /\ ret.table[1].required_reactive_correction_mvar = Zero
    /\ ret.table[2].avg_reactive_power_mvar = FromInt(4)
    /\ ret.table[2].required_reactive_correction_mvar = FromInt(1)

OneRowTables ==
    {"calculate_basic_statistics", "compare_to_standards",
     "calculate_power_quality_indices", "calculate_circuit_metrics",
     "perform_fault_analysis"}

\* C7: the station_id values of each derived table are exactly the stations
\* with at least one row in the input: none invented, none dropped, no row for
\* a station without rows, and one row per station in each
\* one-row-per-station table.
C7_GroupingComplete ==
    /\ \A op \in OneRowTables :
        ret.op = op =>
            /\ ret.error = "none"
            /\ TableStations(ret.table) = LoadedStations
            /\ OnePerStation(ret.table)
    /\ ret.op = "identify_load_patterns" =>
            /\ ret.error = "none"
            /\ TableStations(ret.table.daily) = LoadedStations
            /\ TableStations(ret.table.weekly) = LoadedStations
            /\ TableStations(ret.table.hourly_profile) = LoadedStations

\* A table of two rows, both of the second station and neither a fault: the
\* fault table holds that station's row (with no fault) and none for the
\* first station.
C7_Witness ==
    /\ Ran("perform_fault_analysis")
    /\ Len(loaded) = 2
    /\ LoadedStations = {"SUB_002"}
    /\ Len(ret.table) = 1
    /\ ret.table[1].station_id = "SUB_002"
    /\ ~ret.table[1].first_fault.present

\* The outcome of one function on a table and standards.
Outcome(op, frame, standards) ==
    CASE op = "calculate_basic_statistics" -> CalculateBasicStatistics(frame)
      [] op = "identify_load_patterns" -> IdentifyLoadPatterns(frame)
      [] op = "compare_to_standards" -> CompareToStandards(frame, standards)
      [] op = "calculate_power_quality_indices" ->
            CalculatePowerQualityIndices(frame, standards)
      [] op = "calculate_circuit_metrics" -> CalculateCircuitMetrics(frame, standards)
      [] op = "perform_fault_analysis" -> PerformFaultAnalysis(frame, standards)

\* C8: every invocation returns what its function returns on the table as it
\* was loaded and the standards passed, whatever calls were made before it: no
\* result depends on state an earlier call left behind.
C8_Deterministic ==
    ret.op # "none" =>
        LET fresh == Outcome(ret.op, Frame("df", loaded), ret.standards)
        IN ret.error = fresh.error /\ ret.table = fresh.table

\* A fault analysis that read the timestamp column, made after other calls.
C8_Witness ==
    /\ calls = "several"
    /\ Ran("perform_fault_analysis")
    /\ \E k \in 1..Len(ret.table) : ret.table[k].first_fault.present

\* C9: for two standards that differ only in current_max, c1 <= c2, every
\* station's over_current_events under c2 is at most that under c1, and the
\* other three counts are the same.
C9_FaultMonotone ==
    Ran("perform_fault_analysis") =>
        \A c1 \in CurrentLimits :
            c1 <= ret.standards.current_max =>
                LET tighter == PerformFaultAnalysis(
                                   df, [ret.standards EXCEPT !.current_max = c1]).table
                IN /\ Len(tighter) = Len(ret.table)
                   /\ \A k \in 1..Len(ret.table) :
                        /\ tighter[k].station_id = ret.table[k].station_id
                        /\ ret.table[k].over_current_events <= tighter[k].over_current_events
                        /\ ret.table[k].voltage_sag_events = tighter[k].voltage_sag_events
                        /\ ret.table[k].voltage_swell_events = tighter[k].voltage_swell_events
                        /\ ret.table[k].very_low_pf_events = tighter[k].very_low_pf_events

\* A station with no over-current event under the limit passed and two under
\* a lower one.
C9_Witness ==
    /\ Ran("perform_fault_analysis")
    /\ \E c1 \in CurrentLimits :
        /\ c1 < ret.standards.current_max
        /\ \E k \in 1..Len(ret.table) :
            /\ ret.table[k].over_current_events = 0
            /\ PerformFaultAnalysis(df, [ret.standards EXCEPT !.current_max = c1])
                    .table[k].over_current_events = 2

\* C10: load_factor is avg_demand_mw / peak_demand_mw and kvar_to_kw_ratio is
\* avg_reactive_power_mvar / avg_demand_mw; with a peak of exactly zero the
\* first is NaN, with a mean real power of exactly zero the second is NaN;
\* neither is an error, a zero put in its place or an infinity, and the
\* station's other indices are reported.
C10_RatioGuards ==
    ret.op = "calculate_power_quality_indices" =>
        /\ ret.error = "none"
        /\ TableStations(ret.table) = LoadedStations
        /\ \A k \in 1..Len(ret.table) :
            LET row == ret.table[k]
                peak == FromInt(MaxAt(row.station_id, "real_power_mw"))
                avg == MeanAt(row.station_id, "real_power_mw")
                avg_reactive == MeanAt(row.station_id, "reactive_power_mvar")
            IN /\ row.load_factor = (IF peak = Zero THEN NaN ELSE FDiv(avg, peak))
               /\ row.kvar_to_kw_ratio = (IF avg = Zero THEN NaN ELSE FDiv(avg_reactive, avg))
               /\ ~IsInf(row.load_factor)
               /\ ~IsInf(row.kvar_to_kw_ratio)
               /\ row.peak_demand_mw = peak
               /\ row.avg_demand_mw = avg
               /\ row.avg_reactive_power_mvar = avg_reactive
               /\ IsNum(row.avg_power_factor)
               /\ IsNum(row.low_power_factor_pct)
               /\ IsNum(row.very_low_power_factor_pct)
               /\ IsNum(row.avg_voltage_deviation)
               /\ IsNum(row.avg_apparent_power_mva)

\* A station whose peak is 0 MW, beside one whose mean real power is 0 with
\* reactive power flowing (unguarded, its kvar_to_kw_ratio would be an
\* infinity).
C10_Witness ==
    /\ Ran("calculate_power_quality_indices")
    /\ Len(ret.table) = 2
    /\ ret.table[1].peak_demand_mw = Zero
    /\ ret.table[1].load_factor = NaN
    /\ ret.table[2].avg_demand_mw = Zero
    /\ FLt(Zero, ret.table[2].avg_reactive_power_mvar)
    /\ ret.table[2].kvar_to_kw_ratio = NaN

\* The magnitude of the complex power p + jq: |p| or |q| when the other is 0.
MagnitudeOf(p, q) ==
    IF q = Zero THEN (IF FLt(p, Zero) THEN FSub(Zero, p) ELSE p)
    ELSE IF p = Zero THEN (IF FLt(q, Zero) THEN FSub(Zero, q) ELSE q)
    ELSE FSqrt(FAdd(FMul(p, p), FMul(q, q)))

\* C11: existing_power_factor is average real power / |average complex
\* power| and expected_power_factor is average real power / |(average real,
\* average reactive - correction)|; when the magnitude is zero the power
\* factor is NaN: not an error, a zero or an infinity. A station with zero
\* average real power and positive average reactive power has a NaN
\* expected_power_factor.
C11_PowerFactorGuards ==
    ret.op = "calculate_circuit_metrics" =>
        /\ ret.error = "none"
        /\ \A k \in 1..Len(ret.table) :
            LET row == ret.table[k]
                avg_real == MeanAt(row.station_id, "real_power_mw")
                avg_reactive == MeanAt(row.station_id, "reactive_power_mvar")
                existing == MagnitudeOf(avg_real, avg_reactive)
                expected == MagnitudeOf(
                    avg_real, FSub(avg_reactive, row.required_reactive_correction_mvar))
            IN /\ row.existing_power_factor
                    = (IF existing = Zero THEN NaN ELSE FDiv(avg_real, existing))
               /\ row.expected_power_factor
                    = (IF expected = Zero THEN NaN ELSE FDiv(avg_real, expected))
               /\ ~IsInf(row.existing_power_factor)
               /\ ~IsInf(row.expected_power_factor)
               /\ (avg_real = Zero /\ FLt(Zero, avg_reactive))
                    => IsNaN(row.expected_power_factor)

\* A station with no real power and positive reactive power: its existing
\* power factor is 0, and after the full correction its expected one is NaN;
\* beside it a station with no power at all, whose two power factors are NaN.
C11_Witness ==
    /\ Ran("calculate_circuit_metrics")
    /\ Len(ret.table) = 2
    /\ ret.table[1].avg_real_power_mw = Zero
    /\ FLt(Zero, ret.table[1].avg_reactive_power_mvar)
    /\ ret.table[1].existing_power_factor = Zero
    /\ FLt(Zero, ret.table[1].required_reactive_correction_mvar)
    /\ IsNaN(ret.table[1].expected_power_factor)
    /\ ret.table[2].avg_reactive_power_mvar = Zero
    /\ IsNaN(ret.table[2].existing_power_factor)

\* The sum over the rows `indices` of the squared distance of `field` from
\* `mean`.
RECURSIVE SumSquaresOver(_, _, _)
SumSquaresOver(indices, field, mean) ==
    IF indices = {} THEN Zero
    ELSE LET i == CHOOSE j \in indices : TRUE
             dev == FSub(FromInt(loaded[i][field]), mean)
         IN FAdd(FMul(dev, dev), SumSquaresOver(indices \ {i}, field, mean))

\* C12: calculate_basic_statistics reports, for a station with exactly one
\* row, NaN (not 0) as the standard deviation of each of the five fields,
\* with a mean and a median equal to the single sample; for a station with
\* two or more rows the standard deviation is the square root of the summed
\* squared deviations over N - 1.
C12_SampleStd ==
    Ran("calculate_basic_statistics") =>
        \A k \in 1..Len(ret.table) :
            LET row == ret.table[k]
                rows == RowsAt(row.station_id)
                n == Cardinality(rows)
            IN \A m \in 1..Len(Metrics) :
                IF n = 1
                THEN LET sample == loaded[CHOOSE i \in rows : TRUE][Metrics[m]]
                     IN /\ IsNaN(row.std[m])
                        /\ row.mean[m] = FromInt(sample)
                        /\ row.median[m] = FromInt(sample)
                ELSE row.std[m]
                        = FSqrt(FDiv(SumSquaresOver(rows, Metrics[m],
                                                    MeanAt(row.station_id, Metrics[m])),
                                     FromInt(n - 1)))

\* Two stations of one row each: every standard deviation is NaN, and the
\* mean and median of the voltage are the sample's own.
C12_Witness ==
    /\ Ran("calculate_basic_statistics")
    /\ Len(ret.table) = 2
    /\ Len(loaded) = 2
    /\ \A k \in 1..2 : \A m \in 1..Len(Metrics) : IsNaN(ret.table[k].std[m])
    /\ ret.table[1].mean[1] = ret.table[1].median[1]
    /\ IsNum(ret.table[1].mean[1])

\* A source is malformed when a required column is absent or a timestamp
\* cell does not parse.
Malformed(source) ==
    \/ ~(BaseColumns \subseteq source.columns)
    \/ /\ "timestamp" \in source.columns
       /\ \E i \in 1..Len(source.records) : ~source.records[i].timestamp.parseable

\* C13: load_power_data fails, and returns no table, whenever a required
\* column is absent from the source or a timestamp does not parse (any error
\* raised counts as the MalformedInputError); it never returns a table whose
\* timestamp column holds unparsed values.
C13_MalformedRejected ==
    ret.op = "load_power_data" =>
        /\ Malformed(csv) => ret.error # "none" /\ df = NotLoaded
        /\ ret.error = "none" => ret.table.timestamp_dtype = "datetime64"

\* C14: for every well-formed source load_power_data returns a table whose
\* rows are the source's records, each exactly once (none added, dropped or
\* deduplicated, no value altered), in non-decreasing order of timestamp.
C14_SortedPermutation ==
    ret.op = "load_power_data" /\ ~Malformed(csv) =>
        /\ ret.error = "none"
        /\ df.rows = ret.table.rows
        /\ Len(df.rows) = Len(csv.records)
        /\ \E p \in Orderings(Len(csv.records)) :
            \A i \in 1..Len(csv.records) :
                df.rows[i] = [csv.records[p[i]] EXCEPT !.timestamp = @.key]
        /\ \A i \in 1..(Len(df.rows) - 1) : df.rows[i].timestamp <= df.rows[i + 1].timestamp

\* A well-formed source whose records are in descending order of time and
\* hold out-of-range values as they are: the table returned holds both, the
\* later one last.
C14_Witness ==
    /\ ret.op = "load_power_data"
    /\ ~Malformed(csv)
    /\ Len(csv.records) = 2
    /\ csv.records[1].timestamp.key > csv.records[2].timestamp.key
    /\ df.rows[1].timestamp < df.rows[2].timestamp
    /\ df.rows[2].station_id = csv.records[1].station_id
    /\ df.rows[2].voltage_pu = csv.records[1].voltage_pu
    /\ df.rows[2].voltage_pu < DefaultStandards.voltage_fault_min

\* C15: no analysis function modifies the table it is given: after any
\* sequence of calls the caller's table has the rows it was loaded with, in
\* the same order, and the same columns: none of apparent_power_mva,
\* phase_angle_deg and voltage_deviation added, timestamp still a column and
\* not the index.
C15_InputUntouched ==
    calls # "none" =>
        /\ df.id = "df"
        /\ df.rows = loaded
        /\ df.columns = BaseColumns
        /\ df.columns \cap {"apparent_power_mva", "phase_angle_deg", "voltage_deviation"} = {}
        /\ "timestamp" \in df.columns
        /\ df.index # "timestamp"

\* Several calls made, the last one the power quality indices, which assign
\* three columns to their working table.
C15_Witness ==
    /\ calls = "several"
    /\ Ran("calculate_power_quality_indices")
    /\ df = Frame("df", loaded)

\* The station_id column of a table.
StationSeq(table) == [k \in 1..Len(table) |-> table[k].station_id]

\* The station_id columns of the tables a function returned.
StationSeqs(op, table) ==
    IF op = "identify_load_patterns"
    THEN <<StationSeq(table.daily), StationSeq(table.weekly),
           StationSeq(table.hourly_profile)>>
    ELSE <<StationSeq(table)>>

\* The place of a station id in ascending order.
Rank(station) == CHOOSE i \in 1..Len(StationOrder) : StationOrder[i] = station

Ascending(stations) ==
    \A i, j \in 1..Len(stations) : i < j => Rank(stations[i]) <= Rank(stations[j])

\* The orderings of the loaded rows that keep each station's rows in the same
\* relative order.
StationwiseOrderings ==
    {p \in Orderings(Len(loaded)) :
        \A i, j \in 1..Len(loaded) :
            (i < j /\ loaded[p[i]].station_id = loaded[p[j]].station_id) => p[i] < p[j]}

\* C16: every derived table lists its stations in ascending order of
\* station_id, whatever the order in which the stations first appear in the
\* input: reordering the input rows, each station's rows kept in their
\* relative order, leaves the station column of every output as it is.
C16_StationOrder ==
    Ran(ret.op) /\ ret.op # "none" =>
        /\ \A t \in 1..Len(StationSeqs(ret.op, ret.table)) :
            Ascending(StationSeqs(ret.op, ret.table)[t])
        /\ \A p \in StationwiseOrderings :
            LET reordered == Frame("df", [i \in 1..Len(loaded) |-> loaded[p[i]]])
            IN StationSeqs(ret.op, Outcome(ret.op, reordered, ret.standards).table)
                    = StationSeqs(ret.op, ret.table)

\* A table whose first row is of the second station and whose second row is
\* of the first: the compliance table lists the first station first.
C16_Witness ==
    /\ Ran("compare_to_standards")
    /\ Len(loaded) = 2
    /\ loaded[1].station_id = "SUB_002"
    /\ loaded[2].station_id = "SUB_001"
    /\ StationSeq(ret.table) = <<"SUB_001", "SUB_002">>

\* The rows of a pattern table that are of one station, in the table's order.
SeriesOf(table, station) == SelectSeq(table, LAMBDA r : r.station_id = station)

\* The mean of `field` over the loaded rows `indices`, NaN when there are none.
MeanOrMissing(indices, field) ==
    IF indices = {} THEN NaN ELSE Rat(SumOver(indices, field), Cardinality(indices))

\* The calendar day (days since 2024-01-01) of a loaded row.
DateOf(i) == loaded[i].timestamp \div 24

\* C17: in the daily table each station has exactly one row for every
\* calendar day from the day of its first sample to the day of its last; the
\* row of a day holds the mean real and reactive power of exactly the
\* station's samples taken from that day's midnight up to the next, and a day
\* in the span without samples is present with a missing (NaN) mean, not
\* left out and not zero.
C17_DailyContinuous ==
    Ran("identify_load_patterns") =>
        \A station \in LoadedStations :
            LET series == SeriesOf(ret.table.daily, station)
                days == {DateOf(i) : i \in RowsAt(station)}
                first == CHOOSE d \in days : \A e \in days : d <= e
                last == CHOOSE d \in days : \A e \in days : e <= d
            IN /\ Len(series) = last - first + 1
               /\ \A b \in 1..Len(series) :
                    LET day == first + b - 1
                        samples == {i \in RowsAt(station) :
                                       /\ day * 24 <= loaded[i].timestamp
                                       /\ loaded[i].timestamp < (day + 1) * 24}
                    IN /\ series[b].timestamp = day * 24
                       /\ series[b].real_power_mw
                            = MeanOrMissing(samples, "real_power_mw")
                       /\ series[b].reactive_power_mvar
                            = MeanOrMissing(samples, "reactive_power_mvar")

\* A station sampled on a Monday and on the Thursday after: four daily rows,
\* the two in the middle with missing means.
C17_Witness ==
    /\ Ran("identify_load_patterns")
    /\ Len(ret.table.daily) = 4
    /\ IsNum(ret.table.daily[1].real_power_mw)
    /\ IsNaN(ret.table.daily[2].real_power_mw)
    /\ IsNaN(ret.table.daily[3].reactive_power_mvar)
    /\ IsNum(ret.table.daily[4].real_power_mw)
    /\ ret.table.daily[4].timestamp = ret.table.daily[1].timestamp + 72

\* Day 0, 2024-01-01, is a Monday: the Sundays are the days 6, 13, 20, ...
IsSunday(day) == day % 7 = 6

\* The first Sunday on or after a day.
SundayOnOrAfter(day) == CHOOSE s \in day..(day + 6) : IsSunday(s)

\* C18: weekly buckets end on Sunday: every sample of a station contributes
\* to exactly one weekly row of that station, the one labelled with the first
\* Sunday on or after the sample's date (a Sunday sample, at any time of the
\* day, belongs to that same Sunday), and each row's values are the mean real
\* and reactive power of exactly the samples assigned to it.
C18_WeekEndingSunday ==
    Ran("identify_load_patterns") =>
        \A station \in LoadedStations :
            LET series == SeriesOf(ret.table.weekly, station)
                assigned(b) == {i \in RowsAt(station) :
                                   SundayOnOrAfter(DateOf(i)) * 24 = series[b].timestamp}
            IN /\ \A i \in RowsAt(station) :
                    Cardinality({b \in 1..Len(series) : i \in assigned(b)}) = 1
               /\ \A b \in 1..Len(series) :
                    /\ IsSunday(series[b].timestamp \div 24)
                    /\ series[b].timestamp % 24 = 0
                    /\ series[b].real_power_mw
                            = MeanOrMissing(assigned(b), "real_power_mw")
                    /\ series[b].reactive_power_mvar
                            = MeanOrMissing(assigned(b), "reactive_power_mvar")

\* A station sampled on a Sunday at 23:00 and on the Monday after at 00:00:
\* two weekly rows a week apart, the first labelled with that Sunday.
C18_Witness ==
    /\ Ran("identify_load_patterns")
    /\ Len(loaded) = 2
    /\ IsSunday(DateOf(1))
    /\ loaded[1].timestamp % 24 = 23
    /\ loaded[2].timestamp = loaded[1].timestamp + 1
    /\ Len(ret.table.weekly) = 2
    /\ ret.table.weekly[1].timestamp = DateOf(1) * 24
    /\ ret.table.weekly[2].timestamp = ret.table.weekly[1].timestamp + 168
    /\ IsNum(ret.table.weekly[1].real_power_mw)
    /\ IsNum(ret.table.weekly[2].real_power_mw)

\* The loaded rows of a station taken at one hour of the day, on any date.
SamplesAtHour(station, hour) ==
    {i \in RowsAt(station) : loaded[i].timestamp % 24 = hour}

\* C19, as stated: for every station the hourly_profile table holds one row
\* for each hour of the day 0..23, with the means over all of the station's
\* samples taken at that hour, whatever their date.
C19_TwentyFourRows ==
    Ran("identify_load_patterns") =>
        \A station \in LoadedStations :
            LET series == SeriesOf(ret.table.hourly_profile, station)
            IN /\ Len(series) = 24
               /\ \A h \in 0..23 :
                    /\ series[h + 1].hour = h
                    /\ series[h + 1].mean_real_power_mw
                            = MeanOrMissing(SamplesAtHour(station, h), "real_power_mw")
                    /\ series[h + 1].mean_reactive_power_mvar
                            = MeanOrMissing(SamplesAtHour(station, h), "reactive_power_mvar")

\* C19, amended: for every station the hourly_profile table holds one row
\* for each hour of the day at which the station has at least one sample (24
\* rows only when it has samples at every hour), in ascending order of hour,
\* with the means over all of the station's samples taken at that hour,
\* whatever their date; an hour without samples has no row.
C19_HourlyProfile ==
    Ran("identify_load_patterns") =>
        \A station \in LoadedStations :
            LET series == SeriesOf(ret.table.hourly_profile, station)
                hours == {h \in 0..23 : SamplesAtHour(station, h) # {}}
            IN /\ Len(series) = Cardinality(hours)
               /\ {series[k].hour : k \in 1..Len(series)} = hours
               /\ \A j, k \in 1..Len(series) : j < k => series[j].hour < series[k].hour
               /\ \A k \in 1..Len(series) :
                    /\ series[k].mean_real_power_mw
                            = Rat(SumOver(SamplesAtHour(station, series[k].hour),
                                          "real_power_mw"),
                                  Cardinality(SamplesAtHour(station, series[k].hour)))
                    /\ series[k].mean_reactive_power_mvar
                            = Rat(SumOver(SamplesAtHour(station, series[k].hour),
                                          "reactive_power_mvar"),
                                  Cardinality(SamplesAtHour(station, series[k].hour)))

\* A station sampled at 00:00 on two different dates with different real
\* power: one row, for hour 0, holding the mean of the two.
C19_Witness ==
    /\ Ran("identify_load_patterns")
    /\ Len(loaded) = 2
    /\ loaded[1].timestamp < loaded[2].timestamp
    /\ loaded[1].real_power_mw # loaded[2].real_power_mw
    /\ Len(ret.table.hourly_profile) = 1
    /\ ret.table.hourly_profile[1].hour = 0
    /\ ret.table.hourly_profile[1].mean_real_power_mw = Zero

\* C20: for a station in which exactly one row triggers any fault condition,
\* perform_fault_analysis reports a count of exactly 1 for each condition
\* that row triggers, 0 for each it does not, and first_fault and last_fault
\* both equal to that row's timestamp.
C20_SingleFault ==
    Ran("perform_fault_analysis") =>
        \A k \in 1..Len(ret.table) :
            LET rec == ret.table[k]
                faulty == {i \in RowsAt(rec.station_id) : IsFault(loaded[i])}
            IN Cardinality(faulty) = 1 =>
                LET row == loaded[CHOOSE i \in faulty : TRUE]
                IN /\ rec.voltage_sag_events = (IF IsSag(row) THEN 1 ELSE 0)
                   /\ rec.voltage_swell_events = (IF IsSwell(row) THEN 1 ELSE 0)
                   /\ rec.over_current_events = (IF IsOverCurrent(row) THEN 1 ELSE 0)
                   /\ rec.very_low_pf_events = (IF IsVeryLowPf(row) THEN 1 ELSE 0)
                   /\ rec.first_fault = SomeTimestamp(row.timestamp)
                   /\ rec.last_fault = SomeTimestamp(row.timestamp)

\* A station of two rows, the first without a fault and the second a voltage
\* sag and nothing else: one sag event, first and last fault at the second
\* row's time.
C20_Witness ==
    /\ Ran("perform_fault_analysis")
    /\ Len(ret.table) = 1
    /\ Len(loaded) = 2
    /\ ~IsFault(loaded[1])
    /\ ret.table[1].voltage_sag_events = 1
    /\ ret.table[1].voltage_swell_events = 0
    /\ ret.table[1].over_current_events = 0
    /\ ret.table[1].very_low_pf_events = 0
    /\ ret.table[1].first_fault = SomeTimestamp(loaded[2].timestamp)
    /\ ret.table[1].last_fault = ret.table[1].first_fault

One == FromInt(1)

\* Every sample of the station has positive real power and no reactive power.
AtUnity(station) ==
    \A i \in RowsAt(station) :
        loaded[i].real_power_mw > 0 /\ loaded[i].reactive_power_mvar = 0

\* C21: for a station whose every sample has positive real power and zero
\* reactive power, and any power_factor_target in (0, 1],
\* calculate_circuit_metrics reports a required correction of 0 and an
\* expected and an existing power factor of exactly 1.
C21_UnityStation ==
    Ran("calculate_circuit_metrics") /\ InTargetRange(ret.standards) =>
        \A k \in 1..Len(ret.table) :
            AtUnity(ret.table[k].station_id) =>
                /\ ret.table[k].required_reactive_correction_mvar = Zero
                /\ ret.table[k].required_capacitor_bank_kvar = Zero
                /\ ret.table[k].existing_power_factor = One
                /\ ret.table[k].expected_power_factor = One

\* A station of two samples, 4 MW and 2 MW without reactive power, under the
\* default target 0.95.
C21_Witness ==
    /\ Ran("calculate_circuit_metrics")
    /\ ret.standards.power_factor_target = 95
    /\ Len(ret.table) = 1
    /\ Len(loaded) = 2
    /\ loaded[1].real_power_mw # loaded[2].real_power_mw
    /\ AtUnity(ret.table[1].station_id)
    /\ ret.table[1].avg_real_power_mw = FromInt(3)
    /\ ret.table[1].expected_power_factor = One

RECURSIVE SquaresOver(_, _)
SquaresOver(indices, field) ==
    IF indices = {} THEN 0
    ELSE LET i == CHOOSE j \in indices : TRUE
         IN loaded[i][field] * loaded[i][field] + SquaresOver(indices \ {i}, field)

RECURSIVE AbsOver(_, _)
AbsOver(indices, field) ==
    IF indices = {} THEN 0
    ELSE LET i == CHOOSE j \in indices : TRUE
         IN Abs(loaded[i][field]) + AbsOver(indices \ {i}, field)

\* The quadratic mean and the mean of the absolute values of a station's samples.
QuadraticMeanAt(station, field) ==
    FSqrt(Rat(SquaresOver(RowsAt(station), field), Cardinality(RowsAt(station))))

MeanAbsAt(station, field) == Rat(AbsOver(RowsAt(station), field), Cardinality(RowsAt(station)))

SameMagnitudeAt(station, field) ==
    \A i, j \in RowsAt(station) : Abs(loaded[i][field]) = Abs(loaded[j][field])

\* C22: calculate_circuit_metrics reports voltage_rms_pu and current_rms_pu as
\* the square root of the mean of the station's squared samples; so the RMS
\* voltage is at least the mean absolute voltage, and equal to it only when
\* all the station's voltage samples have the same absolute value.
C22_QuadraticMean ==
    Ran("calculate_circuit_metrics") =>
        \A k \in 1..Len(ret.table) :
            LET station == ret.table[k].station_id
            IN /\ ret.table[k].voltage_rms_pu = QuadraticMeanAt(station, "voltage_pu")
               /\ ret.table[k].current_rms_pu = QuadraticMeanAt(station, "current_pu")
               /\ FLe(MeanAbsAt(station, "voltage_pu"), ret.table[k].voltage_rms_pu)
               /\ (ret.table[k].voltage_rms_pu = MeanAbsAt(station, "voltage_pu")
                      <=> SameMagnitudeAt(station, "voltage_pu"))

\* A station with the voltages 0.90 and 1.00: the mean is 0.95, the RMS above it.
C22_Witness ==
    /\ Ran("calculate_circuit_metrics")
    /\ Len(ret.table) = 1
    /\ {loaded[i].voltage_pu : i \in 1..Len(loaded)} = {90, 100}
    /\ MeanAbsAt(ret.table[1].station_id, "voltage_pu") = FromInt(95)
    /\ FLt(FromInt(95), ret.table[1].voltage_rms_pu)

Concentrated(atFirst, pf) ==
    [i \in 1..Len(loaded) |->
        LET same == RowsAt(loaded[i].station_id)
            pivot == IF atFirst THEN CHOOSE j \in same : \A h \in same : j <= h
                     ELSE CHOOSE j \in same : \A h \in same : j >= h
        IN [loaded[i] EXCEPT
               !.real_power_mw = IF i = pivot THEN SumOver(same, "real_power_mw") ELSE 0,
               !.reactive_power_mvar =
                   IF i = pivot THEN SumOver(same, "reactive_power_mvar") ELSE 0,
               !.power_factor = pf]]

\* What the claim says depends on the averages and the target alone.
PowerOutcome(row) ==
    [station_id |-> row.station_id,
     avg_real_power_mw |-> row.avg_real_power_mw,
     avg_reactive_power_mvar |-> row.avg_reactive_power_mvar,
     existing_power_factor |-> row.existing_power_factor,
     required_reactive_correction_mvar |-> row.required_reactive_correction_mvar,
     required_capacitor_bank_kvar |-> row.required_capacitor_bank_kvar,
     expected_power_factor |-> row.expected_power_factor]

PowerOutcomes(table) == [k \in 1..Len(table) |-> PowerOutcome(table[k])]

\* C24: calculate_circuit_metrics averages, then combines: the two averages
\* are the arithmetic means of the station's samples, and the existing power
\* factor, the correction and the expected power factor depend on them and
\* the target alone. A table with the same per-station count and sums of real
\* and reactive power gives the same values, whatever the distribution over
\* the samples and whatever the power_factor column holds.
C24_AverageThenCombine ==
    Ran("calculate_circuit_metrics") =>
        /\ \A k \in 1..Len(ret.table) :
              /\ ret.table[k].avg_real_power_mw =
                     MeanAt(ret.table[k].station_id, "real_power_mw")
              /\ ret.table[k].avg_reactive_power_mvar =
                     MeanAt(ret.table[k].station_id, "reactive_power_mvar")
        /\ \A atFirst \in BOOLEAN, pf \in {0, 100} :
              PowerOutcomes(CalculateCircuitMetrics(Frame("df", Concentrated(atFirst, pf)),
                                                    ret.standards).table)
                  = PowerOutcomes(ret.table)

\* A station with the samples 4 MW + 3 MVAr and 4 MW - 3 MVAr: each sample
\* has the power factor 0.8, the average complex power has 1.
C24_Witness ==
    /\ Ran("calculate_circuit_metrics")
    /\ Len(ret.table) = 1
    /\ {loaded[i].reactive_power_mvar : i \in 1..Len(loaded)} = {3, -3}
    /\ \A i \in 1..Len(loaded) : loaded[i].real_power_mw = 4
    /\ Concentrated(TRUE, 0) # loaded
    /\ ret.table[1].existing_power_factor = One

\* The number of a station's samples that satisfy a threshold, and the
\* percentage the machine makes of a count.
InBandAt(station, field, min) ==
    Cardinality({i \in RowsAt(station) : loaded[i][field] >= min})

OverAt(station, field, max) ==
    Cardinality({i \in RowsAt(station) : loaded[i][field] > max})

PctDouble(count, n) == DoubleTimes(DoubleDiv(count, n), 100)

HundredDouble == DoubleOf(100)

\* The doubles next to 100.0.
BelowHundred == [HundredDouble EXCEPT !.mant = LimbsDecrement(@)]

AboveHundred == [HundredDouble EXCEPT !.mant = LimbsAdd(@, <<1>>, 0)]

\* C26 as stated: power_factor_within_pct of compare_to_standards plus
\* low_power_factor_pct of calculate_power_quality_indices, for the same
\* standards, equals exactly 100 for every station.
C26_ExactlyHundred ==
    Ran("run_analysis") =>
        \A k \in 1..Len(ret.table) :
            DoubleAdd(ret.table[k].power_factor_within_pct,
                      ret.table[k].low_power_factor_pct) = HundredDouble

\* C26: for the same standards every sample of a station is counted by
\* exactly one of power_factor_within_pct (power_factor >= power_factor_min)
\* and low_power_factor_pct (power_factor < power_factor_min): the two are the
\* percentages of complementary counts. Their sum is 100 to within one unit
\* in the last place, and exactly 100 when one of the counts is 0 or the
\* station has 1, 2 or 4 samples.
C26_ComplementaryShares ==
    Ran("run_analysis") =>
        \A k \in 1..Len(ret.table) :
            LET station == ret.table[k].station_id
                n == Cardinality(RowsAt(station))
                within == InBandAt(station, "power_factor", ret.standards.power_factor_min)
                sum == DoubleAdd(ret.table[k].power_factor_within_pct,
                                 ret.table[k].low_power_factor_pct)
            IN /\ ret.table[k].power_factor_within_pct = PctDouble(within, n)
               /\ ret.table[k].low_power_factor_pct = PctDouble(n - within, n)
               /\ sum \in {BelowHundred, HundredDouble, AboveHundred}
               /\ (within \in {0, n} \/ n \in {1, 2, 4}) => sum = HundredDouble

\* A station of three samples, one of them at or above power_factor_min:
\* 33.33333333333333 + 66.66666666666666 is 99.99999999999999.
C26_Witness ==
    /\ Ran("run_analysis")
    /\ Len(ret.table) = 1
    /\ Len(loaded) = 3
    /\ InBandAt(ret.table[1].station_id, "power_factor", ret.standards.power_factor_min) = 1
    /\ DoubleAdd(ret.table[1].power_factor_within_pct,
                 ret.table[1].low_power_factor_pct) = BelowHundred

\* C27: for the same standards a station's samples within the current band
\* of compare_to_standards (current_pu <= current_max) and the
\* over_current_events of perform_fault_analysis (current_pu > current_max)
\* add up to the station's sample count; so current_within_pct is 100 if and
\* only if over_current_events is 0.
C27_CurrentShares ==
    Ran("run_analysis") =>
        \A k \in 1..Len(ret.table) :
            LET station == ret.table[k].station_id
                n == Cardinality(RowsAt(station))
                events == ret.table[k].over_current_events
            IN /\ events = OverAt(station, "current_pu", ret.standards.current_max)
               /\ ret.table[k].current_within_pct = PctDouble(n - events, n)
               /\ (ret.table[k].current_within_pct = HundredDouble <=> events = 0)

\* A station of three samples, one of them above current_max and one on it.
C27_Witness ==
    /\ Ran("run_analysis")
    /\ Len(ret.table) = 1
    /\ Len(loaded) = 3
    /\ ret.table[1].over_current_events = 1
    /\ \E i \in 1..Len(loaded) : loaded[i].current_pu = ret.standards.current_max
    /\ ret.table[1].current_within_pct = PctDouble(2, 3)
    /\ ret.table[1].current_within_pct # HundredDouble

\* What a reader of the table computes for a row: the target's reactive
\* power, the reactive power left after the correction, and the correction of
\* a second run on samples that all hold what was left (the mean of one or two
\* equal doubles is that double).
TargetReactiveOf(row) == TargetReactiveDouble(row.avg_real_power_mw, row.target_phase_angle_tan)

RemainingOf(row) ==
    DoubleSub(row.avg_reactive_power_mvar, row.required_reactive_correction_mvar)

SecondCorrectionOf(row) == ReactiveCorrectionDouble(RemainingOf(row), TargetReactiveOf(row))

DoubleMin(x, y) == IF DoubleLess(y, x) THEN y ELSE x

\* One unit in the last place of a positive double.
UlpOf(x) == [mant |-> Shifted(<<1>>, Precision - 1, MantLimbs), exp |-> x.exp - (Precision - 1)]

----------------------------------------------------------------------------
\* The dashboard's cache

\* The loaders holding a table.
Cached == {l \in Loaders : cache.entries[l] # NotCached}

\* C25: clear_cache() empties every loader, so that each recomputes on its
\* next access from a read of the data file made after the clear: at any
\* moment every table held derives from a read made after the last clear,
\* all tables held derive from one and the same read, nothing is held while
\* no read has been made since the clear, and the table a loader returned
\* since the clear derives from such a read, the one the dataset held comes
\* from.
C25_CacheInvalidation ==
    /\ \A l \in Cached : cache.entries[l].read > cache.cleared_at
    /\ \A l, m \in Cached : cache.entries[l] = cache.entries[m]
    /\ cache.reads = cache.cleared_at => Cached = {}
    /\ cache.returned.loader # "none" /\ cache.returned.error = "none" =>
        /\ cache.returned.read > cache.cleared_at
        /\ cache.returned.read = cache.entries["_load_dataset"].read
        /\ cache.returned.file = cache.entries["_load_dataset"].file

\* After a clear that followed a read, the weekly pattern was returned from
\* a new read while the fault summary of the same read is held, and the data
\* file has changed since.
C25_Witness ==
    /\ cache.cleared_at >= 1
    /\ cache.returned.loader = "load_weekly_pattern"
    /\ cache.returned.error = "none"
    /\ cache.returned.read = cache.cleared_at + 1
    /\ cache.entries["load_fault_summary"] # NotCached
    /\ cache.file # cache.returned.file

----------------------------------------------------------------------------
\* The dashboard's selections

====
